---- MODULE Spec2Model ----
(***************************************************************************)
(* A model of `plan`: daily plan files mutated by independent processes    *)
(* under a per-file advisory lock, with whole-file atomic replacement      *)
(* (temp file, fsync, rename) and the inbox text protocol.                 *)
(*                                                                         *)
(* Text is modelled as sequences of one-character strings, so that         *)
(* splitting on newlines, trimming and joining are computed, not assumed.  *)
(* Option<usize> indices are 1-based naturals with 0 standing for None.    *)
(***************************************************************************)
EXTENDS Integers, Sequences, FiniteSets, TLC

(* ------------------------------------------------------------------ *)
(* Bounds of the model                                                 *)
(* ------------------------------------------------------------------ *)

\* number of concurrently running processes
NProcs == 2
\* number of injected I/O failures in one behaviour
MaxFaults == 1
\* number of process crashes in one behaviour
MaxCrashes == 1
\* number of lines of the initial file body in the single-call specification
MaxLines == 3
\* the dates a template is generated for: today and up to MaxDays days back
MaxDays == 800
\* the longest first line of a file whose inbox block is synthesized
MaxWidth == 24
\* the small day counts rendered into date arguments: 0..MaxSmall
MaxSmall == 12

(* ------------------------------------------------------------------ *)
(* Text helpers (std::str)                                             *)
(* ------------------------------------------------------------------ *)

NL == "\n"

Repeat(c, n) == [i \in 1..n |-> c]

Max(a, b) == IF a >= b THEN a ELSE b

\* str::trim: strip leading and trailing whitespace
Trim(s) ==
    LET keep == {i \in 1..Len(s) : s[i] # " " /\ s[i] # NL}
    IN  IF keep = {} THEN <<>>
        ELSE LET lo == CHOOSE i \in keep : \A j \in keep : i <= j
                 hi == CHOOSE i \in keep : \A j \in keep : i >= j
             IN  SubSeq(s, lo, hi)

\* str::contains(&str)
Contains(s, sub) ==
    \E i \in 0..(Len(s) - Len(sub)) : SubSeq(s, i + 1, i + Len(sub)) = sub

\* str::replace(c, "")
RemoveChar(s, c) == SelectSeq(s, LAMBDA x : x # c)

\* str::split('\n').collect(): always at least one element
RECURSIVE Split(_)
Split(s) ==
    LET nls == {i \in 1..Len(s) : s[i] = NL}
    IN  IF nls = {} THEN <<s>>
        ELSE LET k == CHOOSE i \in nls : \A j \in nls : i <= j
             IN  <<SubSeq(s, 1, k - 1)>> \o Split(SubSeq(s, k + 1, Len(s)))

\* [&str]::join("\n")
RECURSIVE Join(_)
Join(ls) ==
    IF ls = <<>> THEN <<>>
    ELSE IF Len(ls) = 1 THEN ls[1]
    ELSE ls[1] \o <<NL>> \o Join(Tail(ls))

\* Vec::insert(idx, x) with a 1-based index
InsertAt(ls, idx, x) == SubSeq(ls, 1, idx - 1) \o <<x>> \o SubSeq(ls, idx, Len(ls))

\* number of elements of a sequence equal to x
Count(ls, x) == Cardinality({i \in 1..Len(ls) : ls[i] = x})

(* ------------------------------------------------------------------ *)
(* file.rs: the inbox text protocol                                    *)
(* ------------------------------------------------------------------ *)

InboxLabel == <<"i", "n", "b", "o", "x">>

DefaultWidth == 21

\* the odd tilde given to the left pad instead of the right one
make_inbox_line_left_heavy(width) ==
    LET remaining == IF width >= Len(InboxLabel) THEN width - Len(InboxLabel) ELSE 0
        right == remaining \div 2
        left == remaining - right
    IN  Repeat("~", left) \o InboxLabel \o Repeat("~", right)

make_inbox_line(width) ==
    LET remaining == IF width >= Len(InboxLabel) THEN width - Len(InboxLabel) ELSE 0
        left == remaining \div 2
        right == remaining - left
    IN  Repeat("~", left) \o InboxLabel \o Repeat("~", right)

\* an open-marker test that only knows the marker of the default width
is_inbox_open_default_width(line) == Trim(line) = make_inbox_line(DefaultWidth)

\* an open-marker test that forgets the label: tildes at both ends are enough
is_inbox_open_any_tildes(line) ==
    LET t == Trim(line)
    IN  t # <<>> /\ t[1] = "~" /\ t[Len(t)] = "~"

is_inbox_open(line) ==
    LET t == Trim(line)
    IN  /\ t # <<>>
        /\ t[1] = "~"
        /\ t[Len(t)] = "~"
        /\ Contains(t, InboxLabel)
        /\ RemoveChar(t, "~") = InboxLabel

is_tilde_line(line) ==
    LET t == Trim(line)
    IN  t # <<>> /\ \A i \in 1..Len(t) : t[i] = "~"

\* the lines of the content read, without the empty piece after a final newline
ContentLines(content) ==
    LET ls == Split(content)
    IN  IF ls[Len(ls)] = <<>> THEN SubSeq(ls, 1, Len(ls) - 1) ELSE ls

\* a scan that records a tilde line as the close marker before any open marker
RECURSIVE ScanMarkersAnyClose(_, _, _, _)
ScanMarkersAnyClose(ls, i, st, en) ==
    IF i > Len(ls) THEN [start |-> st, end |-> en]
    ELSE IF st = 0 /\ is_inbox_open(ls[i]) THEN ScanMarkersAnyClose(ls, i + 1, i, en)
    ELSE IF en = 0 /\ is_tilde_line(ls[i]) THEN ScanMarkersAnyClose(ls, i + 1, st, i)
    ELSE ScanMarkersAnyClose(ls, i + 1, st, en)

\* the marker scan loop from index i on; st and en are the indices found so far
RECURSIVE ScanMarkers(_, _, _, _)
ScanMarkers(ls, i, st, en) ==
    IF i > Len(ls) THEN [start |-> st, end |-> en]
    ELSE IF st = 0 /\ is_inbox_open(ls[i]) THEN ScanMarkers(ls, i + 1, i, en)
    ELSE IF st # 0 /\ en = 0 /\ is_tilde_line(ls[i]) THEN ScanMarkers(ls, i + 1, st, i)
    ELSE ScanMarkers(ls, i + 1, st, en)

FindMarkers(ls) == ScanMarkers(ls, 1, 0, 0)

RegionFound(ls) == FindMarkers(ls).start # 0 /\ FindMarkers(ls).end # 0

\* a separating blank line after every non-empty file
FileNeedsNewlineAlways(ls) == ls # <<>>

FileNeedsNewline(ls) == ls # <<>> /\ ls[Len(ls)] # <<>>

\* the default width whatever the first line is
WidthDefaultOnly(ls) == DefaultWidth

Width(ls) == IF ls = <<>> THEN DefaultWidth ELSE Max(Len(ls[1]), DefaultWidth)

\* new_line put after the close marker instead of before it
InsertAfterClose(ls, new_line) == InsertAt(ls, FindMarkers(ls).end + 1, new_line)

\* new_line written over the close marker
InsertReplacingClose(ls, new_line) == [ls EXCEPT ![FindMarkers(ls).end] = new_line]

\* region found: new_line goes directly before the close marker
InsertFound(ls, new_line) == InsertAt(ls, FindMarkers(ls).end, new_line)

\* a rebuild that takes the orphan open marker out of the old lines
InsertRebuildReplacingOpen(ls, new_line) ==
    LET st == FindMarkers(ls).start
        kept == IF st = 0 THEN ls ELSE SubSeq(ls, 1, st - 1) \o SubSeq(ls, st + 1, Len(ls))
    IN  (IF FileNeedsNewline(kept) THEN Append(kept, <<>>) ELSE kept)
            \o <<make_inbox_line(Width(ls)), new_line, Repeat("~", Width(ls))>>

\* a fresh block appended without its close marker
InsertRebuildNoClose(ls, new_line) ==
    (IF FileNeedsNewline(ls) THEN Append(ls, <<>>) ELSE ls)
        \o <<make_inbox_line(Width(ls)), new_line>>

\* a fresh block appended without the line to insert
InsertRebuildMarkersOnly(ls, new_line) ==
    (IF FileNeedsNewline(ls) THEN Append(ls, <<>>) ELSE ls)
        \o <<make_inbox_line(Width(ls)), Repeat("~", Width(ls))>>

\* region absent or corrupted: a fresh block is appended at the end of the file
InsertRebuild(ls, new_line) ==
    (IF FileNeedsNewline(ls) THEN Append(ls, <<>>) ELSE ls)
        \o <<make_inbox_line(Width(ls)), new_line, Repeat("~", Width(ls))>>

\* the lines insert_into_inbox joins into the new content
NewLines(content, new_line) ==
    LET ls == ContentLines(content)
    IN  IF RegionFound(ls) THEN InsertFound(ls, new_line) ELSE InsertRebuild(ls, new_line)

\* new_content: what insert_into_inbox writes for the content it read
NewContent(content, new_line) == Join(NewLines(content, new_line)) \o <<NL>>

(* ------------------------------------------------------------------ *)
(* date.rs: dates, file names and the template                         *)
(* ------------------------------------------------------------------ *)

\* the clock: 2026-02-19 as a day number (days since 1970-01-01)
Today == 20503

\* get_date_opt: today minus days_ago
get_date(days_ago) == Today - days_ago

\* proleptic Gregorian year, month and day of a day number
Civil(z0) ==
    LET z == z0 + 719468
        era == z \div 146097
        doe == z - era * 146097
        yoe == (doe - doe \div 1460 + doe \div 36524 - doe \div 146096) \div 365
        doy == doe - (365 * yoe + yoe \div 4 - yoe \div 100)
        mp == (5 * doy + 2) \div 153
        d == doy - (153 * mp + 2) \div 5 + 1
        m == IF mp < 10 THEN mp + 3 ELSE mp - 9
        y == yoe + era * 400 + (IF m <= 2 THEN 1 ELSE 0)
    IN  [year |-> y, month |-> m, day |-> d]

Digit(n) == <<"0", "1", "2", "3", "4", "5", "6", "7", "8", "9">>[n + 1]

Pad2(n) == <<Digit(n \div 10), Digit(n % 10)>>

Pad4(n) == <<Digit(n \div 1000), Digit((n \div 100) % 10)>> \o Pad2(n % 100)

MonthAbbrev(m) ==
    << <<"J","a","n">>, <<"F","e","b">>, <<"M","a","r">>, <<"A","p","r">>,
       <<"M","a","y">>, <<"J","u","n">>, <<"J","u","l">>, <<"A","u","g">>,
       <<"S","e","p">>, <<"O","c","t">>, <<"N","o","v">>, <<"D","e","c">> >>[m]

\* 1970-01-01 was a Thursday; index 1 is Monday
WeekdayName(date) ==
    << <<"M","o","n","d","a","y">>, <<"T","u","e","s","d","a","y">>,
       <<"W","e","d","n","e","s","d","a","y">>, <<"T","h","u","r","s","d","a","y">>,
       <<"F","r","i","d","a","y">>, <<"S","a","t","u","r","d","a","y">>,
       <<"S","u","n","d","a","y">> >>[((date + 3) % 7) + 1]

\* date.format("%Y, %b %d - %A")
FormatLong(date) ==
    LET c == Civil(date)
    IN  Pad4(c.year) \o <<",", " ">> \o MonthAbbrev(c.month) \o <<" ">> \o Pad2(c.day)
            \o <<" ", "-", " ">> \o WeekdayName(date)

\* date.format("%Y-%m-%d")
FormatIso(date) ==
    LET c == Civil(date)
    IN  Pad4(c.year) \o <<"-">> \o Pad2(c.month) \o <<"-">> \o Pad2(c.day)

\* a template without the blank line after the close marker
generate_template_no_blank(date) ==
    LET formatted_date == FormatLong(date)
    IN  formatted_date \o <<NL>> \o make_inbox_line(Len(formatted_date)) \o <<NL>>
            \o Repeat("~", Len(formatted_date)) \o <<NL>> \o <<"-", "-", "-", NL>>

generate_template(date) ==
    LET formatted_date == FormatLong(date)
        inbox_line == make_inbox_line(Len(formatted_date))
        close_line == Repeat("~", Len(formatted_date))
    IN  formatted_date \o <<NL>> \o inbox_line \o <<NL>> \o close_line \o <<NL>>
            \o <<NL>> \o <<"-", "-", "-", NL>>

(* ------------------------------------------------------------------ *)
(* The directory, paths and processes                                  *)
(* ------------------------------------------------------------------ *)

VARIABLES
    fs,        \* the plan directory: path -> content, for the files that exist
    fs0,       \* the directory at the start (never changes)
    locks,     \* advisory locks held: records [proc, path, mode]
    pc,        \* where each process is in its command
    cmd,       \* the command each process runs: [op, text, days]
    content,   \* the content insert_into_inbox has read
    buf,       \* the content a process is about to write (template or new_content)
    branch,    \* the atomic write a process is in or failed in: template, found, rebuild
    res,       \* the outcome of each process
    entries,   \* plan_entries of a listing process still to be read
    seen,      \* the contents each reading process has read
    grants,    \* per plan file, the processes in the order they got the exclusive lock
    versions,  \* per plan file, the complete contents put in place so far
    faults,    \* I/O failures that may still be injected
    crashes    \* crashes that may still happen

vars == <<fs, fs0, locks, pc, cmd, content, buf, branch, res, entries, seen, grants, versions,
          faults, crashes>>

Procs == 1..NProcs

\* process::id()
Pid(p) == p

\* dir.join(format_filename(date)); a path is kept as its stem (the date), its
\* extension kind and, for a temp file, the pid in the extension
get_plan_path(date) == [stem |-> date, kind |-> "plan", pid |-> 0]

\* path.with_extension("lock")
LockPath(path) == [path EXCEPT !.kind = "lock", !.pid = 0]

\* no temp sibling: the content is written at the target path itself
InPlacePath(path, p) == path

\* the temp file put at the lock sibling's path
TmpPathOnLock(path, p) == LockPath(path)

\* one temp path for the whole directory, whatever the target
TmpPathFixed(path, p) == [stem |-> Today, kind |-> "tmp", pid |-> Pid(p)]

\* a temp path without the process id
TmpPathNoPid(path, p) == [path EXCEPT !.kind = "tmp", !.pid = 0]

\* the template written at the target itself, the insertions through a temp file
TmpPathTemplateInPlace(path, p) ==
    IF branch[p] = "template" THEN path ELSE [path EXCEPT !.kind = "tmp", !.pid = Pid(p)]

\* path.with_extension(format!("tmp-{}", process::id()))
TmpPath(path, p) == [path EXCEPT !.kind = "tmp", !.pid = Pid(p)]

\* the rendered file name of a path
FileName(path) ==
    FormatIso(path.stem) \o <<".">> \o
        (IF path.kind = "plan" THEN <<"p", "l", "a", "n">>
         ELSE IF path.kind = "lock" THEN <<"l", "o", "c", "k">>
         ELSE <<"t", "m", "p", "-">> \o <<Digit(path.pid)>>)

Exists(path) == path \in DOMAIN fs

\* the directory with content c at path (created or replaced)
WriteFile(dir, path, c) ==
    [x \in DOMAIN dir \cup {path} |-> IF x = path THEN c ELSE dir[x]]

\* fs::remove_file, its error ignored
RemoveFile(dir, path) == [x \in DOMAIN dir \ {path} |-> dir[x]]

\* a copy in place of the rename: from stays where it is
CopyFile(dir, from, to) == WriteFile(dir, to, dir[from])

\* fs::rename(from, to): to is replaced in one step, from disappears
RenameFile(dir, from, to) == RemoveFile(WriteFile(dir, to, dir[from]), from)

\* OpenOptions::new().read(true).write(true).create(true).truncate(false).open()
OpenOrCreate(dir, path) == IF path \in DOMAIN dir THEN dir ELSE WriteFile(dir, path, <<>>)

Target(p) == get_plan_path(get_date(cmd[p].days))

\* final_text: a log entry is a task item, a jot is raw
FinalText(c) == IF c.op = "log" THEN <<"*", " ">> \o c.text ELSE c.text

NoCmd == [op |-> "none", text |-> <<>>, days |-> 0]

\* the command lines a process may be started with
Cmds == {[op |-> "log", text |-> <<"a">>, days |-> 0],
         [op |-> "jot", text |-> <<"b">>, days |-> 0],
         [op |-> "jot", text |-> <<"~", "~">>, days |-> 0],
         [op |-> "jot", text |-> <<"b">>, days |-> 1],
         [op |-> "show", text |-> <<>>, days |-> 0],
         [op |-> "default", text |-> <<>>, days |-> 0],
         [op |-> "ls", text |-> <<>>, days |-> 0]}

FailCmds == {c \in Cmds : c.op \in {"log", "show"} \/ (c.op = "jot" /\ c.text = <<"b">>)}

Mutating(op) == op \in {"log", "jot", "default", "insert"}

\* the outcomes an I/O call may have: TRUE is success
Outcomes == IF faults > 0 THEN {TRUE, FALSE} ELSE {TRUE}

Spend(ok) == faults' = IF ok THEN faults ELSE faults - 1

\* a strict prefix of a content, as an interrupted write leaves it
Half(c) == SubSeq(c, 1, Len(c) \div 2)

Dates == {get_date(0), get_date(1)}

PlanFiles(dir) == {x \in DOMAIN dir : x.kind = "plan"}

\* a body without inbox markers
PlainBody == <<"H", NL, "x", NL>>

InitialDirs ==
    {[x \in today \cup yest |-> IF x.stem = Today THEN PlainBody
                                 ELSE generate_template(x.stem)] :
        today \in {{}, {get_plan_path(get_date(0))}},
        yest \in {{}, {get_plan_path(get_date(1))}}}

\* the start: a directory, no process running, and the failures still to come
InitWith(dirs, nfaults, ncrashes) ==
    /\ fs \in dirs
    /\ fs0 = fs
    /\ locks = {}
    /\ pc = [p \in Procs |-> "idle"]
    /\ cmd = [p \in Procs |-> NoCmd]
    /\ content = [p \in Procs |-> <<>>]
    /\ buf = [p \in Procs |-> <<>>]
    /\ branch = [p \in Procs |-> "none"]
    /\ res = [p \in Procs |-> "none"]
    /\ entries = [p \in Procs |-> {}]
    /\ seen = [p \in Procs |-> {}]
    /\ grants = [d \in Dates |-> <<>>]
    /\ versions = [d \in Dates |->
                     IF get_plan_path(d) \in DOMAIN fs THEN {fs[get_plan_path(d)]} ELSE {}]
    /\ faults = nfaults
    /\ crashes = ncrashes

Init == InitWith(InitialDirs, 0, 0)

\* the commands run under failure injection all target today's plan file
FailDirs == {d \in InitialDirs : get_plan_path(get_date(1)) \notin DOMAIN d}

FaultInit == InitWith(FailDirs, MaxFaults, 0)

CrashInit == InitWith(FailDirs, 0, MaxCrashes)

(* ------------------------------------------------------------------ *)
(* bin.rs: command dispatch                                            *)
(* ------------------------------------------------------------------ *)

\* str::ends_with and str::starts_with
EndsWith(s, suffix) ==
    Len(s) >= Len(suffix) /\ SubSeq(s, Len(s) - Len(suffix) + 1, Len(s)) = suffix

StartsWith(s, prefix) == Len(s) >= Len(prefix) /\ SubSeq(s, 1, Len(prefix)) = prefix

\* every entry that is not a lock file taken for a plan file
is_plan_file_not_lock(name) == ~EndsWith(name, <<".", "l", "o", "c", "k">>)

\* is_plan_file: the name ends with .plan and is no sync-conflict copy
is_plan_file(name) ==
    /\ EndsWith(name, <<".", "p", "l", "a", "n">>)
    /\ ~StartsWith(name, <<".", "s", "y", "n", "c", "-", "c", "o", "n", "f", "l", "i", "c", "t">>)

\* scan_plan_dir: the plan files the start-up scan lists
scan_plan_dir(dir) == {x \in DOMAIN dir : is_plan_file(FileName(x))}

\* where a command goes first after parsing its arguments
\* show taking its lock before it looks for the file
FirstStepLockFirst(op) == IF op = "ls" THEN "ls_read" ELSE "lock_open"

FirstStep(op) ==
    IF op = "show" THEN "sh_exists" ELSE IF op = "ls" THEN "ls_read" ELSE "lock_open"

\* a process starts a command of the menu; processes are numbered in the order
\* they start
StartFrom(p, menu) ==
    /\ pc[p] = "idle"
    /\ IF p = 1 THEN TRUE ELSE pc[p - 1] # "idle"
    /\ \E c \in menu :
         /\ cmd' = [cmd EXCEPT ![p] = [c EXCEPT !.text = Trim(c.text)]]
         /\ pc' = [pc EXCEPT ![p] = FirstStep(c.op)]
         /\ entries' = [entries EXCEPT ![p] = IF c.op = "ls" THEN scan_plan_dir(fs) ELSE {}]
    /\ UNCHANGED <<fs, fs0, locks, content, buf, branch, res, seen, grants, versions, faults, crashes>>

Start(p) == StartFrom(p, Cmds)

\* the commands run under failure injection
StartMutation(p) == StartFrom(p, FailCmds)

(* ------------------------------------------------------------------ *)
(* file.rs: locks                                                      *)
(* ------------------------------------------------------------------ *)

LockMode(op) == IF op = "show" THEN "shared" ELSE "excl"

\* lock_exclusive() on one lock file for the whole directory
lock_exclusive_global(p, lp) == \A l \in locks : l.proc = p

\* a lock attempt that does not wait for the other holders
lock_exclusive_nowait(p, lp) == TRUE

\* lock_exclusive() returns once no other open file holds a lock on the lock file
lock_exclusive(p, lp) == \A l \in locks : l.path = lp => l.proc = p

\* a shared lock attempt that does not wait for an exclusive holder
lock_shared_nowait(p, lp) == TRUE

\* lock_shared() returns once no other open file holds the exclusive lock
lock_shared(p, lp) == \A l \in locks : (l.path = lp /\ l.mode = "excl") => l.proc = p

\* a guard dropped as soon as it is returned (bound to `_`)
LockGuardDropped(p, lp, mode) == {}

\* the LockGuard bound in the caller's scope
LockGuard(p, lp, mode) == {[proc |-> p, path |-> lp, mode |-> mode]}

\* an explicit unlock on the success path only
UnlockedOnSuccess(p) == IF res[p] = "ok" THEN {l \in locks : l.proc # p} ELSE locks

\* the default command keeping its lock while the editor runs
UnlockedAfterEditor(p) ==
    IF cmd[p].op = "default" THEN locks ELSE {l \in locks : l.proc # p}

\* LockGuard::drop, and the kernel's release when a process ends
Unlocked(p) == {l \in locks : l.proc # p}

\* an open error that is dropped: the command goes on without a lock
OnOpenErrorIgnored(op) ==
    IF op = "show" THEN "sh_read" ELSE IF op = "insert" THEN "read" ELSE "exists"

\* .open(&lock_path)? and acquire_lock(&path)?: the error ends the command
OnOpenError(op) == "done"

\* acquire_lock / acquire_shared_lock, first half: open or create the lock file
OpenLock(p) ==
    /\ pc[p] = "lock_open"
    /\ \E ok \in Outcomes :
         /\ Spend(ok)
         /\ IF ok
            THEN /\ fs' = OpenOrCreate(fs, LockPath(Target(p)))
                 /\ pc' = [pc EXCEPT ![p] = "lock_wait"]
                 /\ res' = res
            ELSE /\ fs' = fs
                 /\ pc' = [pc EXCEPT ![p] = OnOpenError(cmd[p].op)]
                 /\ res' = [res EXCEPT ![p] = "io_error"]
    /\ UNCHANGED <<fs0, locks, cmd, content, buf, branch, entries, seen, grants, versions, crashes>>

\* acquire_lock, second half: block in lock_exclusive, then hand out the guard
LockExclusive(p) ==
    /\ pc[p] = "lock_wait"
    /\ LockMode(cmd[p].op) = "excl"
    /\ lock_exclusive(p, LockPath(Target(p)))
    /\ locks' = locks \cup LockGuard(p, LockPath(Target(p)), "excl")
    /\ grants' = [grants EXCEPT ![Target(p).stem] = Append(@, p)]
    /\ pc' = [pc EXCEPT ![p] = IF cmd[p].op = "insert" THEN "read" ELSE "exists"]
    /\ UNCHANGED <<fs, fs0, cmd, content, buf, branch, res, entries, seen, versions, faults, crashes>>

\* acquire_shared_lock, second half: block in lock_shared, then hand out the guard
LockShared(p) ==
    /\ pc[p] = "lock_wait"
    /\ LockMode(cmd[p].op) = "shared"
    /\ lock_shared(p, LockPath(Target(p)))
    /\ locks' = locks \cup LockGuard(p, LockPath(Target(p)), "shared")
    /\ pc' = [pc EXCEPT ![p] = "sh_read"]
    /\ UNCHANGED <<fs, fs0, cmd, content, buf, branch, res, entries, seen, grants, versions,
                   faults, crashes>>

\* the guard goes out of scope: the lock is released and the command ends
Unlock(p) ==
    /\ pc[p] = "unlock"
    /\ locks' = Unlocked(p)
    /\ pc' = [pc EXCEPT ![p] = "done"]
    /\ UNCHANGED <<fs, fs0, cmd, content, buf, branch, res, entries, seen, grants, versions,
                   faults, crashes>>

(* ------------------------------------------------------------------ *)
(* date.rs: ensure_file_exists                                         *)
(* ------------------------------------------------------------------ *)

\* a target date that is never taken to be in the past
IsPastNever(days_ago) == FALSE

\* is_past as handle_file_exists passes it: days_ago > 0
IsPast(days_ago) == days_ago > 0

\* handle_file_exists / ensure_file_exists up to the atomic write
CheckExists(p) ==
    /\ pc[p] = "exists"
    /\ IF Exists(Target(p))
       THEN /\ pc' = [pc EXCEPT ![p] = IF cmd[p].op = "default" THEN "unlock" ELSE "read"]
            /\ res' = [res EXCEPT ![p] = IF cmd[p].op = "default" THEN "ok" ELSE @]
            /\ UNCHANGED <<buf, branch>>
       ELSE IF IsPast(cmd[p].days)
       THEN /\ pc' = [pc EXCEPT ![p] = "unlock"]
            /\ res' = [res EXCEPT ![p] = "usage"]
            /\ UNCHANGED <<buf, branch>>
       ELSE /\ pc' = [pc EXCEPT ![p] = "create"]
            /\ buf' = [buf EXCEPT ![p] = generate_template(get_date(cmd[p].days))]
            /\ branch' = [branch EXCEPT ![p] = "template"]
            /\ res' = res
    /\ UNCHANGED <<fs, fs0, locks, cmd, content, entries, seen, grants, versions, faults, crashes>>

(* ------------------------------------------------------------------ *)
(* The atomic write (date.rs 108-119, file.rs 218-228 and 234-245)     *)
(* ------------------------------------------------------------------ *)

\* an I/O step failed: the error is on its way out, the guard not yet dropped
Failed(p) ==
    /\ pc' = [pc EXCEPT ![p] = "cleanup"]
    /\ res' = [res EXCEPT ![p] = "io_error"]

\* File::create(&tmp_path)
Create(p) ==
    /\ pc[p] = "create"
    /\ \E ok \in Outcomes :
         /\ Spend(ok)
         /\ IF ok
            THEN /\ fs' = WriteFile(fs, TmpPath(Target(p), p), <<>>)
                 /\ pc' = [pc EXCEPT ![p] = "write"]
                 /\ res' = res
            ELSE /\ fs' = fs
                 /\ Failed(p)
    /\ UNCHANGED <<fs0, locks, cmd, content, buf, branch, entries, seen, grants, versions, crashes>>

\* a single write call, which may stop short and still return Ok
write_once(c) == Half(c)

\* write_all returns Ok only once the whole buffer has been written
write_all(c) == c

\* file.write_all(content): a failing write may leave part of the content behind
Write(p) ==
    /\ pc[p] = "write"
    /\ \E ok \in Outcomes :
         /\ Spend(ok)
         /\ IF ok
            THEN /\ fs' = WriteFile(fs, TmpPath(Target(p), p), write_all(buf[p]))
                 /\ pc' = [pc EXCEPT ![p] = "sync"]
                 /\ res' = res
            ELSE /\ fs' = WriteFile(fs, TmpPath(Target(p), p), Half(buf[p]))
                 /\ Failed(p)
    /\ UNCHANGED <<fs0, locks, cmd, content, buf, branch, entries, seen, grants, versions, crashes>>

\* file.sync_all()
Sync(p) ==
    /\ pc[p] = "sync"
    /\ \E ok \in Outcomes :
         /\ Spend(ok)
         /\ IF ok
            THEN /\ pc' = [pc EXCEPT ![p] = "rename"]
                 /\ res' = res
            ELSE Failed(p)
    /\ UNCHANGED <<fs, fs0, locks, cmd, content, buf, branch, entries, seen, grants, versions,
                   crashes>>

\* where a process goes once its atomic write has returned Ok
AfterWrite(p) ==
    IF branch[p] = "template" /\ cmd[p].op # "default" THEN "read" ELSE "unlock"

\* fs::rename(&tmp_path, path), tmp_guard.persist() and the return of Ok
Rename(p) ==
    /\ pc[p] = "rename"
    /\ \E ok \in Outcomes :
         /\ Spend(ok)
         /\ IF ok
            THEN /\ fs' = RenameFile(fs, TmpPath(Target(p), p), Target(p))
                 /\ versions' = [versions EXCEPT ![Target(p).stem] = @ \cup {buf[p]}]
                 /\ pc' = [pc EXCEPT ![p] = AfterWrite(p)]
                 /\ res' = [res EXCEPT ![p] = IF AfterWrite(p) = "unlock" THEN "ok" ELSE @]
                 /\ branch' = [branch EXCEPT ![p] = "none"]
            ELSE /\ fs' = fs
                 /\ versions' = versions
                 /\ branch' = branch
                 /\ Failed(p)
    /\ UNCHANGED <<fs0, locks, cmd, content, buf, entries, seen, grants, crashes>>

\* no guard: the temp file is left where it is
GuardForgotten(dir, path) == dir

\* TempFileGuard::drop with persist = false: remove the temp file, ignore errors
GuardDrop(dir, path) == RemoveFile(dir, path)

\* the error leaves the function: the guard is dropped, then the caller's lock
Cleanup(p) ==
    /\ pc[p] = "cleanup"
    /\ fs' = GuardDrop(fs, TmpPath(Target(p), p))
    /\ pc' = [pc EXCEPT ![p] = "unlock"]
    /\ UNCHANGED <<fs0, locks, cmd, content, buf, branch, res, entries, seen, grants, versions,
                   faults, crashes>>

(* ------------------------------------------------------------------ *)
(* file.rs: insert_into_inbox up to the atomic write                   *)
(* ------------------------------------------------------------------ *)

\* a read error that is swallowed: the call goes on with an empty content
OnReadErrorIgnored(op) == "create"

\* fs::read_to_string(path)?: the error leaves insert_into_inbox at once
OnReadError(op) == "unlock"

\* a content that carries the id of the process that computed it
new_content_with_pid(p) ==
    NewContent(fs[Target(p)], FinalText(cmd[p]) \o <<Digit(Pid(p))>>)

\* new_content: computed from the content read and new_line, nothing else
new_content(p) == NewContent(fs[Target(p)], FinalText(cmd[p]))

\* fs::read_to_string(path)? and the computation of new_content
Read(p) ==
    /\ pc[p] = "read"
    /\ \E ok \in Outcomes :
         /\ Spend(ok)
         /\ IF ok /\ Exists(Target(p))
            THEN /\ content' = [content EXCEPT ![p] = fs[Target(p)]]
                 /\ buf' = [buf EXCEPT ![p] = new_content(p)]
                 /\ branch' = [branch EXCEPT ![p] =
                        IF RegionFound(ContentLines(fs[Target(p)])) THEN "found"
                        ELSE "rebuild"]
                 /\ pc' = [pc EXCEPT ![p] = "create"]
                 /\ res' = res
            ELSE /\ pc' = [pc EXCEPT ![p] = OnReadError(cmd[p].op)]
                 /\ res' = [res EXCEPT ![p] = "io_error"]
                 /\ UNCHANGED <<content, buf, branch>>
    /\ UNCHANGED <<fs, fs0, locks, cmd, entries, seen, grants, versions, crashes>>

(* ------------------------------------------------------------------ *)
(* bin.rs: the read-only commands                                      *)
(* ------------------------------------------------------------------ *)

\* show: if !path.exists() { exit 2 }, before any lock is taken
ShowExists(p) ==
    /\ pc[p] = "sh_exists"
    /\ IF Exists(Target(p))
       THEN /\ pc' = [pc EXCEPT ![p] = "lock_open"]
            /\ res' = res
       ELSE /\ pc' = [pc EXCEPT ![p] = "done"]
            /\ res' = [res EXCEPT ![p] = "exit2"]
    /\ UNCHANGED <<fs, fs0, locks, cmd, content, buf, branch, entries, seen, grants, versions,
                   faults, crashes>>

\* show: fs::read_to_string(&path)? under the shared lock, then print
ShowRead(p) ==
    /\ pc[p] = "sh_read"
    /\ \E ok \in Outcomes :
         /\ Spend(ok)
         /\ IF ok /\ Exists(Target(p))
            THEN /\ seen' = [seen EXCEPT ![p] = {fs[Target(p)]}]
                 /\ res' = [res EXCEPT ![p] = "ok"]
            ELSE /\ seen' = seen
                 /\ res' = [res EXCEPT ![p] = "io_error"]
    /\ pc' = [pc EXCEPT ![p] = "unlock"]
    /\ UNCHANGED <<fs, fs0, locks, cmd, content, buf, branch, entries, grants, versions, crashes>>

\* ls: the next entry in descending name order is read without any lock
LsRead(p) ==
    /\ pc[p] = "ls_read"
    /\ IF entries[p] = {}
       THEN /\ pc' = [pc EXCEPT ![p] = "done"]
            /\ res' = [res EXCEPT ![p] = "ok"]
            /\ UNCHANGED <<entries, seen>>
       ELSE LET e == CHOOSE x \in entries[p] : \A y \in entries[p] : y.stem <= x.stem
            IN  /\ entries' = [entries EXCEPT ![p] = @ \ {e}]
                /\ seen' = [seen EXCEPT ![p] = @ \cup {fs[e]}]
                /\ UNCHANGED <<pc, res>>
    /\ UNCHANGED <<fs, fs0, locks, cmd, content, buf, branch, grants, versions, faults, crashes>>

(* ------------------------------------------------------------------ *)
(* Crashes                                                             *)
(* ------------------------------------------------------------------ *)

Running(p) == pc[p] \notin {"idle", "done", "crashed"}

\* a process dies where it stands: no destructor runs, the kernel drops its
\* locks, and a write in progress may have reached the temp file in part
Crash(p) ==
    /\ Running(p)
    /\ crashes > 0
    /\ crashes' = crashes - 1
    /\ pc' = [pc EXCEPT ![p] = "crashed"]
    /\ res' = [res EXCEPT ![p] = "crashed"]
    /\ locks' = Unlocked(p)
    /\ \E partial \in BOOLEAN :
         fs' = IF partial /\ pc[p] = "write"
               THEN WriteFile(fs, TmpPath(Target(p), p), Half(buf[p]))
               ELSE fs
    /\ UNCHANGED <<fs0, cmd, content, buf, branch, entries, seen, grants, versions, faults>>

(* ------------------------------------------------------------------ *)
(* One call of insert_into_inbox on an arbitrary body (tests/prop.rs)  *)
(* ------------------------------------------------------------------ *)

\* the lines file bodies are made of: empty, plain, an open marker, a tilde
\* line, a tilde line with blanks around it, and tildes around a split label
LineChoices ==
    { <<>>, <<"H">>, <<"~", "i", "n", "b", "o", "x", "~">>, <<"~", "~">>, <<" ", "~", " ">>,
      <<"~", "i", "n", "~", "b", "o", "x", "~">> }

\* bodies of up to MaxLines lines, with and without a final newline
Bodies ==
    {Join(ls) \o tail : ls \in UNION {[1..n -> LineChoices] : n \in 0..MaxLines},
                        tail \in {<<>>, <<NL>>}}

\* the texts to insert: plain, empty, a tilde line, and one with a newline in it
InsertTexts == { <<"n">>, <<>>, <<"~", "~">>, <<"a", NL, "b">> }

\* process 1 is about to run acquire_lock and insert_into_inbox on a body
InsertInit ==
    /\ fs \in {[x \in {get_plan_path(get_date(0))} |-> b] : b \in Bodies}
    /\ fs0 = fs
    /\ locks = {}
    /\ pc = [p \in Procs |-> IF p = 1 THEN "lock_open" ELSE "idle"]
    /\ cmd \in {[p \in Procs |-> IF p = 1 THEN [op |-> "insert", text |-> t, days |-> 0]
                                   ELSE NoCmd] : t \in InsertTexts}
    /\ content = [p \in Procs |-> <<>>]
    /\ buf = [p \in Procs |-> <<>>]
    /\ branch = [p \in Procs |-> "none"]
    /\ res = [p \in Procs |-> "none"]
    /\ entries = [p \in Procs |-> {}]
    /\ seen = [p \in Procs |-> {}]
    /\ grants = [d \in Dates |-> <<>>]
    /\ versions = [d \in Dates |->
                     IF get_plan_path(d) \in DOMAIN fs THEN {fs[get_plan_path(d)]} ELSE {}]
    /\ faults = 0
    /\ crashes = 0

(* ------------------------------------------------------------------ *)
(* One call of generate_template on a date                             *)
(* ------------------------------------------------------------------ *)

\* process 1 is about to call generate_template for a date
TemplateInit ==
    /\ fs = <<>>
    /\ fs0 = fs
    /\ locks = {}
    /\ pc = [p \in Procs |-> IF p = 1 THEN "gen" ELSE "idle"]
    /\ cmd \in {[p \in Procs |-> IF p = 1 THEN [op |-> "template", text |-> <<>>, days |-> d]
                                   ELSE NoCmd] : d \in 0..MaxDays}
    /\ content = [p \in Procs |-> <<>>]
    /\ buf = [p \in Procs |-> <<>>]
    /\ branch = [p \in Procs |-> "none"]
    /\ res = [p \in Procs |-> "none"]
    /\ entries = [p \in Procs |-> {}]
    /\ seen = [p \in Procs |-> {}]
    /\ grants = [d \in Dates |-> <<>>]
    /\ versions = [d \in Dates |-> {}]
    /\ faults = 0
    /\ crashes = 0

\* let template = generate_template(date)
Generate(p) ==
    /\ pc[p] = "gen"
    /\ buf' = [buf EXCEPT ![p] = generate_template(get_date(cmd[p].days))]
    /\ pc' = [pc EXCEPT ![p] = "done"]
    /\ res' = [res EXCEPT ![p] = "ok"]
    /\ UNCHANGED <<fs, fs0, locks, cmd, content, branch, entries, seen, grants, versions,
                   faults, crashes>>

TemplateNext == \E p \in Procs : Generate(p)

\* the steps of a command when nothing fails
Step(p) ==
    \/ OpenLock(p)
    \/ LockExclusive(p)
    \/ LockShared(p)
    \/ CheckExists(p)
    \/ Create(p)
    \/ Write(p)
    \/ Sync(p)
    \/ Rename(p)
    \/ Read(p)
    \/ ShowExists(p)
    \/ ShowRead(p)
    \/ Unlock(p)

Next == \E p \in Procs : Start(p) \/ Step(p) \/ LsRead(p)

FaultNext == \E p \in Procs : StartMutation(p) \/ Step(p) \/ Cleanup(p)

CrashNext == \E p \in Procs : StartMutation(p) \/ Step(p) \/ Crash(p)

InsertNext ==
    \E p \in Procs :
        \/ OpenLock(p)
        \/ LockExclusive(p)
        \/ Read(p)
        \/ Create(p)
        \/ Write(p)
        \/ Sync(p)
        \/ Rename(p)
        \/ Unlock(p)

\* concurrent commands, every I/O call succeeding
Spec == Init /\ [][Next]_vars

\* concurrent commands with injected I/O failures
FaultSpec == FaultInit /\ [][FaultNext]_vars

\* concurrent commands with process crashes
CrashSpec == CrashInit /\ [][CrashNext]_vars

(* ------------------------------------------------------------------ *)
(* Properties                                                          *)
(* ------------------------------------------------------------------ *)

TodayPlan == get_plan_path(get_date(0))

HoldsExcl(p) == [proc |-> p, path |-> LockPath(Target(p)), mode |-> "excl"] \in locks

\* a log or jot for today
Inserter(p) == cmd[p].op \in {"log", "jot"} /\ cmd[p].days = 0

InsertedOk(p) == Inserter(p) /\ pc[p] = "done" /\ res[p] = "ok"

FileLines(path) == ContentLines(fs[path])

\* p got the exclusive lock of today's plan file before q did
GrantedBefore(p, q) ==
    \E i, j \in 1..Len(grants[Today]) :
        i < j /\ grants[Today][i] = p /\ grants[Today][j] = q

\* C1: N concurrent log/jot commands with pairwise distinct lines (none of them
\* a line of the template itself) against an initially absent plan file: once
\* all have succeeded, the file holds each inserted line exactly once.
C1_EveryInsertOnce ==
    (/\ TodayPlan \notin DOMAIN fs0
     /\ \A p \in Procs : InsertedOk(p)
     /\ \A p \in Procs :
            Count(ContentLines(generate_template(Today)), FinalText(cmd[p])) = 0
     /\ \A p, q \in Procs : p # q => FinalText(cmd[p]) # FinalText(cmd[q]))
    => /\ TodayPlan \in DOMAIN fs
       /\ \A p \in Procs : Count(FileLines(TodayPlan), FinalText(cmd[p])) = 1

C1_Witness ==
    /\ TodayPlan \notin DOMAIN fs0
    /\ \A p \in Procs : InsertedOk(p)
    /\ \A p, q \in Procs : p # q => FinalText(cmd[p]) # FinalText(cmd[q])
    /\ \A p \in Procs : Count(FileLines(TodayPlan), FinalText(cmd[p])) = 1

\* C2: on every lock file at most one process holds the exclusive lock, and no
\* other process holds a shared lock while one holds the exclusive lock.
C2_LockExclusion ==
    \A l, m \in locks :
        (l.path = m.path /\ l.proc # m.proc) => (l.mode = "shared" /\ m.mode = "shared")

C2_Witness ==
    \E p, q \in Procs :
        /\ HoldsExcl(p)
        /\ pc[q] = "lock_wait"
        /\ cmd[q].op = "show"
        /\ LockPath(Target(q)) = LockPath(Target(p))

\* the steps of a mutation: the existence check, the read, the temp file write
\* and the rename still to be made
MutationSteps == {"exists", "read", "create", "write", "sync", "rename"}

\* C3: a mutating command makes its existence check, its read, its temp file
\* write and its rename while it holds the exclusive lock of the plan file.
C3_MutationUnderLock ==
    \A p \in Procs :
        (Mutating(cmd[p].op) /\ pc[p] \in MutationSteps) => HoldsExcl(p)

C3_Witness ==
    \E p, q \in Procs :
        /\ pc[p] = "rename"
        /\ branch[p] = "found"
        /\ HoldsExcl(p)
        /\ pc[q] = "lock_wait"
        /\ Mutating(cmd[q].op)
        /\ Target(q) = Target(p)

\* C4: inserted lines stand in the file in the order in which their calls were
\* granted the exclusive lock, whatever the inserted texts.
C4_GrantOrder ==
    \A p, q \in Procs :
        (/\ InsertedOk(p) /\ InsertedOk(q)
         /\ FinalText(cmd[p]) # FinalText(cmd[q])
         /\ GrantedBefore(p, q))
        => \E i, j \in 1..Len(FileLines(TodayPlan)) :
              /\ i < j
              /\ FileLines(TodayPlan)[i] = FinalText(cmd[p])
              /\ FileLines(TodayPlan)[j] = FinalText(cmd[q])

AllVersions == UNION {versions[d] : d \in Dates}

\* C5: the content at a plan file's path is always a complete version of the
\* file, and a reader (show, ls) only ever reads complete versions.
C5_OnlyCompleteVersions ==
    /\ \A x \in PlanFiles(fs) : fs[x] \in versions[x.stem] /\ fs[x] # <<>>
    /\ \A p \in Procs : seen[p] \subseteq AllVersions

\* a reader has read the plan file while a writer's temp file was still empty
C5_Witness ==
    \E p, q \in Procs :
        /\ cmd[p].op = "ls"
        /\ seen[p] # {}
        /\ entries[p] = {}
        /\ pc[q] = "write"
        /\ Target(q) \in DOMAIN fs
        /\ fs[TmpPath(Target(q), q)] = <<>>

\* the target of p holds what it held when p's atomic write began
TargetAsBefore(p) ==
    IF branch[p] = "template" THEN Target(p) \notin DOMAIN fs
    ELSE Target(p) \in DOMAIN fs /\ fs[Target(p)] = content[p]

\* C6: when an atomic write has failed at one of its steps and the failing call
\* has returned, the error is returned, the target is as it was before the call
\* and the writer's temp file is gone.
C6_FailedWriteLeavesNothing ==
    \A p \in Procs :
        (pc[p] = "unlock" /\ branch[p] # "none")
        => /\ res[p] = "io_error"
           /\ TargetAsBefore(p)
           /\ TmpPath(Target(p), p) \notin DOMAIN fs

C6_Witness ==
    \E p \in Procs :
        /\ pc[p] = "unlock"
        /\ branch[p] = "found"
        /\ res[p] = "io_error"
        /\ fs[Target(p)] = content[p]
        /\ TmpPath(Target(p), p) \notin DOMAIN fs

\* no process has been granted the exclusive lock of p's target since p was
LastGranted(p) ==
    LET g == grants[Target(p).stem]
    IN  g # <<>> /\ g[Len(g)] = p

\* the target of p holds the complete content from before p's mutation or the
\* complete content p was putting in place
PreviousOrNew(p) ==
    IF branch[p] = "template"
    THEN Target(p) \notin DOMAIN fs \/ fs[Target(p)] = buf[p]
    ELSE IF branch[p] \in {"found", "rebuild"}
    THEN Target(p) \in DOMAIN fs /\ fs[Target(p)] \in {content[p], buf[p]}
    ELSE Target(p) \in DOMAIN fs => fs[Target(p)] \in versions[Target(p).stem]

\* every plan file is a complete version, no dead process holds a lock, and the
\* line of every insert that has succeeded is in the file
SoundDirectory ==
    /\ \A x \in PlanFiles(fs) : fs[x] \in versions[x.stem]
    /\ \A l \in locks : pc[l.proc] # "crashed"
    /\ \A q \in Procs :
           InsertedOk(q) => \E i \in 1..Len(FileLines(TodayPlan)) :
                               FileLines(TodayPlan)[i] = FinalText(cmd[q])

\* C7: a writer that crashes at any point of a mutation leaves the plan file with
\* its complete previous or its complete new content (until the next mutation
\* replaces it), never a truncated or mixed one, and inserts by other processes
\* go on to succeed on it.
C7_CrashSafe ==
    /\ SoundDirectory
    /\ \A p \in Procs :
           (pc[p] = "crashed" /\ Mutating(cmd[p].op) /\ LastGranted(p))
           => PreviousOrNew(p)

\* p crashed inside an atomic write, its partly written temp file is still
\* there, and q, granted the lock after p, has inserted its line
C7_Witness ==
    \E p, q \in Procs :
        /\ pc[p] = "crashed"
        /\ branch[p] \in {"found", "rebuild"}
        /\ TmpPath(Target(p), p) \in DOMAIN fs
        /\ fs[TmpPath(Target(p), p)] = Half(buf[p])
        /\ InsertedOk(q)
        /\ GrantedBefore(p, q)
        /\ \E i \in 1..Len(FileLines(TodayPlan)) :
              FileLines(TodayPlan)[i] = FinalText(cmd[q])

\* one call of insert_into_inbox on each body and text
InsertSpec == InsertInit /\ [][InsertNext]_vars

(* ------------------------------------------------------------------ *)
(* Properties of one insert_into_inbox call                            *)
(* ------------------------------------------------------------------ *)

\* the call of process 1 has returned Ok
Inserted == cmd[1].op = "insert" /\ pc[1] = "done" /\ res[1] = "ok"

\* the lines of the file before the call, the text, and the content written
OldLines == ContentLines(fs0[TodayPlan])

NewLine == cmd[1].text

Written == fs[TodayPlan]

NewlineFree(t) == \A i \in 1..Len(t) : t[i] # NL

\* an open marker: tildes, the word inbox, tildes, blanks around ignored
IsOpenMarker(line) ==
    LET t == Trim(line)
    IN  \E a \in 1..(Len(t) - Len(InboxLabel) - 1) :
            t = Repeat("~", a) \o InboxLabel \o Repeat("~", Len(t) - Len(InboxLabel) - a)

\* a close marker: one or more tildes and nothing else, blanks around ignored
IsCloseMarker(line) ==
    LET t == Trim(line)
    IN  t # <<>> /\ t = Repeat("~", Len(t))

HasOpen(ls) == \E i \in 1..Len(ls) : IsOpenMarker(ls[i])

FirstOpen(ls) ==
    CHOOSE i \in 1..Len(ls) :
        IsOpenMarker(ls[i]) /\ \A j \in 1..(i - 1) : ~IsOpenMarker(ls[j])

HasRegion(ls) ==
    \E i, j \in 1..Len(ls) : i < j /\ IsOpenMarker(ls[i]) /\ IsCloseMarker(ls[j])

\* the first close marker after the first open marker
CloseIndex(ls) ==
    CHOOSE j \in (FirstOpen(ls) + 1)..Len(ls) :
        IsCloseMarker(ls[j]) /\ \A k \in (FirstOpen(ls) + 1)..(j - 1) : ~IsCloseMarker(ls[k])

\* the original lines with new_line as one more line directly before the close
\* marker, and one newline after the last line
OneLineBeforeClose ==
    /\ Written = Join(InsertAt(OldLines, CloseIndex(OldLines), NewLine)) \o <<NL>>
    /\ ContentLines(Written) = InsertAt(OldLines, CloseIndex(OldLines), NewLine)
    /\ Len(ContentLines(Written)) = Len(OldLines) + 1

\* C8 as stated: with an open marker followed by a close marker, the result is
\* the original lines with new_line as exactly one new line before the close
\* marker, for every new_line.
C8_AnyTextIsOneLine == (Inserted /\ HasRegion(OldLines)) => OneLineBeforeClose

\* C8: the same for a new_line that holds no newline character.
C8_InsertBeforeClose ==
    (Inserted /\ HasRegion(OldLines) /\ NewlineFree(NewLine)) => OneLineBeforeClose

\* a line is inserted before the close marker of a file with lines after it
C8_Witness ==
    /\ Inserted /\ HasRegion(OldLines) /\ NewlineFree(NewLine)
    /\ CloseIndex(OldLines) < Len(OldLines)
    /\ OneLineBeforeClose

\* C9: without an open marker the content written is the existing lines, a
\* blank line iff the last existing line is non-empty, an open marker, new_line
\* and an all-tilde close marker, joined by newlines and ended by one newline.
C9_RebuildAppendsBlock ==
    (Inserted /\ ~HasOpen(OldLines))
    => LET kept == OldLines \o (IF OldLines # <<>> /\ OldLines[Len(OldLines)] # <<>>
                                THEN << <<>> >> ELSE <<>>)
           out  == Split(Written)
           o    == out[Len(kept) + 1]
           c    == out[Len(out) - 1]
       IN  /\ Len(out) >= Len(kept) + 4
           /\ IsOpenMarker(o)
           /\ c # <<>> /\ c = Repeat("~", Len(c))
           /\ Written = Join(kept \o <<o, NewLine, c>>) \o <<NL>>

\* a block is appended to a file that has a stray tilde line and ends in text
C9_Witness ==
    /\ Inserted /\ ~HasOpen(OldLines)
    /\ \E i \in 1..Len(OldLines) : IsCloseMarker(OldLines[i])
    /\ OldLines[Len(OldLines)] = <<"H">>
    /\ Len(ContentLines(Written)) = Len(OldLines) + 4

HasLine(c, line) == \E i \in 1..Len(ContentLines(c)) : ContentLines(c)[i] = line

TrimEnd(s) ==
    LET keep == {i \in 1..Len(s) : s[i] # " " /\ s[i] # NL}
    IN  IF keep = {} THEN <<>>
        ELSE SubSeq(s, 1, CHOOSE i \in keep : \A j \in keep : i >= j)

\* content.trim_end().lines().last().unwrap_or("")
LastLine(c) == LET ls == Split(TrimEnd(c)) IN ls[Len(ls)]

\* the last line, trailing whitespace ignored, is non-empty and all tildes
EndsWithTildeLine(c) == LastLine(c) # <<>> /\ LastLine(c) = Repeat("~", Len(LastLine(c)))

\* C11: inserting into a file with no open marker, stray tilde-only lines or
\* not, gives a file that contains the inserted text verbatim and whose last
\* line consists solely of tildes.
C11_RecoveryKeepsTextAndCloses ==
    (Inserted /\ ~HasOpen(OldLines))
    => /\ Contains(Written, NewLine)
       /\ LET ls == ContentLines(Written)
          IN  /\ ls # <<>>
              /\ ls[Len(ls)] # <<>>
              /\ ls[Len(ls)] = Repeat("~", Len(ls[Len(ls)]))

\* a text with a newline in it is inserted verbatim into a file whose only
\* marker-like lines are stray tilde lines
C11_Witness ==
    /\ Inserted /\ ~HasOpen(OldLines)
    /\ \E i \in 1..Len(OldLines) : IsCloseMarker(OldLines[i])
    /\ ~NewlineFree(NewLine)
    /\ Contains(Written, NewLine)
    /\ EndsWithTildeLine(Written)

C13_StrayTildesAreNotMarkers ==
    (Inserted /\ ~HasOpen(OldLines))
    => LET out == Split(Written)
           n   == Len(OldLines)
           k   == IF n > 0 /\ OldLines[n] # <<>> THEN n + 2 ELSE n + 1
       IN  /\ Len(out) >= k + 3
           /\ SubSeq(out, 1, n) = OldLines
           /\ \A i \in 1..(k - 1) : ~IsOpenMarker(out[i])
           /\ IsOpenMarker(out[k])
           /\ SubSeq(out, k + 1, Len(out) - 2) = Split(NewLine)
           /\ IsCloseMarker(out[Len(out) - 1])

\* a block is appended to a file with two tilde-only lines and no open marker
C13_Witness ==
    /\ Inserted /\ ~HasOpen(OldLines)
    /\ \E i, j \in 1..Len(OldLines) :
          i < j /\ IsCloseMarker(OldLines[i]) /\ IsCloseMarker(OldLines[j])
    /\ SubSeq(ContentLines(Written), 1, Len(OldLines)) = OldLines
    /\ Len(ContentLines(Written)) > Len(OldLines) + 2

\* the step by which p's template write puts the file in place
TemplateRenamed(p) == pc[p] = "rename" /\ branch[p] = "template" /\ pc'[p] # "rename"

HasInsertedLine(q) ==
    /\ TodayPlan \in DOMAIN fs
    /\ \E i \in 1..Len(FileLines(TodayPlan)) : FileLines(TodayPlan)[i] = FinalText(cmd[q])

\* C14: the template is only ever put in place at a path where no plan file
\* exists, plan files never disappear (so it is written at most once per plan
\* file), and the line of every insert that has succeeded is in the file.
C14_TemplateWrittenOnce ==
    /\ [](\A q \in Procs : InsertedOk(q) => HasInsertedLine(q))
    /\ [][/\ \A p \in Procs : TemplateRenamed(p) => Target(p) \notin DOMAIN fs
          /\ PlanFiles(fs) \subseteq DOMAIN fs']_vars

\* p created today's plan file and inserted its line; q, granted the lock
\* later, found the file and left it as it was
C14_Witness ==
    \E p, q \in Procs :
        /\ TodayPlan \notin DOMAIN fs0
        /\ InsertedOk(p)
        /\ cmd[q].op = "default" /\ pc[q] = "done" /\ res[q] = "ok"
        /\ GrantedBefore(p, q)
        /\ HasInsertedLine(p)

\* the step by which p's handle_file_exists call decides what to do
Checked(p) == pc[p] = "exists" /\ pc'[p] # "exists"

\* C15: ensure_file_exists has three outcomes: the file exists, Ok and nothing
\* changes; the file is absent and the date is past, a not-found refusal (not
\* an I/O error) and no plan file is created; the file is absent and the date
\* is not past, the template is written to the target path and Ok is returned.
C15_ThreeOutcomes ==
    [][\A p \in Procs :
         /\ Checked(p) =>
              IF Target(p) \in DOMAIN fs
              THEN fs' = fs /\ pc'[p] \in {"read", "unlock"} /\ res'[p] \in {"none", "ok"}
              ELSE IF cmd[p].days > 0
              THEN fs' = fs /\ pc'[p] = "unlock" /\ res'[p] = "usage"
              ELSE /\ pc'[p] = "create"
                   /\ branch'[p] = "template"
                   /\ buf'[p] = generate_template(get_date(cmd[p].days))
         /\ TemplateRenamed(p) =>
              /\ Target(p) \in DOMAIN fs'
              /\ fs'[Target(p)] = buf[p]
              /\ buf[p] = generate_template(get_date(cmd[p].days))
              /\ res'[p] \in {"none", "ok"}]_vars

\* one command was refused for a past date whose file is absent, another
\* created today's file from the template
C15_Witness ==
    \E p, q \in Procs :
        /\ res[p] = "usage" /\ cmd[p].days > 0 /\ Target(p) \notin DOMAIN fs
        /\ cmd[q].op = "default" /\ pc[q] = "done" /\ res[q] = "ok"
        /\ TodayPlan \notin DOMAIN fs0
        /\ fs[TodayPlan] = generate_template(Today)

\* C16: a line inserted for today into an empty directory: the file is created
\* from the template and the line goes between the template's own markers; the
\* file is header, open marker, the line, close marker, blank line, `---`, with
\* no second inbox block.
C16_FirstInsertUsesTemplateMarkers ==
    \A p \in Procs :
        (InsertedOk(p) /\ DOMAIN fs0 = {} /\ grants[Today] = <<p>>)
        => LET ls == FileLines(TodayPlan)
           IN  /\ Len(ls) = 6
               /\ ls[1] = FormatLong(Today)
               /\ IsOpenMarker(ls[2]) /\ Len(ls[2]) = Len(ls[1])
               /\ ls[3] = FinalText(cmd[p])
               /\ ls[4] = Repeat("~", Len(ls[1]))
               /\ ls[5] = <<>>
               /\ ls[6] = <<"-", "-", "-">>
               /\ \A i \in 1..Len(ls) : IsOpenMarker(ls[i]) => i = 2

\* `plan log a` has run alone on an empty directory
C16_Witness ==
    \E p \in Procs :
        /\ InsertedOk(p) /\ DOMAIN fs0 = {} /\ grants[Today] = <<p>>
        /\ cmd[p].op = "log"
        /\ FileLines(TodayPlan)[3] = <<"*", " ", "a">>
        /\ Len(FileLines(TodayPlan)) = 6

\* generate_template on each date
TemplateSpec == TemplateInit /\ [][TemplateNext]_vars

(* ------------------------------------------------------------------ *)
(* Properties of generate_template                                     *)
(* ------------------------------------------------------------------ *)

Generated == cmd[1].op = "template" /\ pc[1] = "done"

\* the template split at its newlines; a newline-terminated text ends in an
\* empty last element
TemplateLines == Split(buf[1])

\* C17: generate_template(date) is exactly five newline-terminated lines: the
\* long-form date, an open marker of the header's width, a close marker of
\* tildes of that width, an empty line and `---`; it depends on the date only
\* and touches nothing else.
C17_TemplateHasFiveLines ==
    Generated
    => /\ Len(TemplateLines) = 6
       /\ TemplateLines[6] = <<>>
       /\ TemplateLines[1] = FormatLong(get_date(cmd[1].days))
       /\ Len(TemplateLines[1]) \in 21..24
       /\ IsOpenMarker(TemplateLines[2])
       /\ Len(TemplateLines[2]) = Len(TemplateLines[1])
       /\ TemplateLines[3] = Repeat("~", Len(TemplateLines[1]))
       /\ TemplateLines[4] = <<>>
       /\ TemplateLines[5] = <<"-", "-", "-">>
       /\ fs = fs0 /\ locks = {}

\* the template of 2024-02-29
C17_Witness ==
    /\ Generated
    /\ cmd[1].days = 721
    /\ TemplateLines[1] = <<"2", "0", "2", "4", ",", " ", "F", "e", "b", " ", "2", "9", " ", "-", " ", "T", "h", "u", "r", "s", "d", "a", "y">>
    /\ Len(TemplateLines) = 6

\* C18: for a header of length N the open marker is (N - 5) / 2 tildes, the
\* word inbox, and N - 5 - left tildes, N characters in all: equal pads for odd
\* N, and for even N the left pad is the smaller half.
C18_OpenMarkerCentered ==
    Generated
    => LET N     == Len(TemplateLines[1])
           left  == (N - 5) \div 2
           right == N - 5 - left
       IN  /\ TemplateLines[2] = Repeat("~", left) \o InboxLabel \o Repeat("~", right)
           /\ Len(TemplateLines[2]) = N
           /\ N % 2 = 1 => left = right
           /\ N % 2 = 0 => right = left + 1

\* a header of odd length 23: nine tildes on each side of the word
C18_Witness ==
    /\ Generated
    /\ Len(TemplateLines[1]) = 23
    /\ TemplateLines[2] = Repeat("~", 9) \o InboxLabel \o Repeat("~", 9)

(* ------------------------------------------------------------------ *)
(* Properties of the error paths                                       *)
(* ------------------------------------------------------------------ *)

HoldsNoLock(p) == \A l \in locks : l.proc # p

\* C19: a command that has ended, by normal return, early return or error
\* (past-date refusal, read failure, write failure), holds no lock.
C19_NoLockAfterExit ==
    \A p \in Procs : pc[p] \in {"idle", "done"} => HoldsNoLock(p)

\* one command ended with the I/O error of its atomic write after it had been
\* granted the lock, another with the past-date refusal; neither holds a lock
C19_Witness ==
    \E p, q \in Procs :
        /\ pc[p] = "done" /\ res[p] = "io_error"
        /\ \E i \in 1..Len(grants[Today]) : grants[Today][i] = p
        /\ pc[q] = "done" /\ res[q] = "usage"
        /\ HoldsNoLock(p) /\ HoldsNoLock(q)

\* the step in which p's open of the lock file fails
OpenFailed(p) == pc[p] = "lock_open" /\ pc'[p] # "lock_open" /\ faults' < faults

\* C20: when the lock file cannot be opened or created, the command ends at
\* once with an I/O error: nothing is retried, no lock is taken, and the plan
\* file is neither read, created nor modified.
C20_OpenFailureIsFatal ==
    [][\A p \in Procs :
         /\ OpenFailed(p) =>
              /\ pc'[p] = "done" /\ res'[p] = "io_error"
              /\ fs' = fs /\ locks' = locks
              /\ content' = content /\ seen' = seen /\ buf' = buf
         /\ pc[p] = "done" => pc'[p] = "done" /\ res'[p] = res[p]]_vars

\* a log command has ended with an I/O error without ever being granted the
\* lock: there is neither a lock file nor a plan file, and nothing was read
C20_Witness ==
    \E p \in Procs :
        /\ cmd[p].op = "log" /\ pc[p] = "done" /\ res[p] = "io_error"
        /\ grants[Today] = <<>>
        /\ LockPath(Target(p)) \notin DOMAIN fs
        /\ Target(p) \notin DOMAIN fs
        /\ content[p] = <<>> /\ buf[p] = <<>>

\* the step in which p's read of the target fails
ReadFailed(p) == pc[p] = "read" /\ pc'[p] # "read" /\ faults' < faults

\* p is inside the atomic write of an insert
WritingInsert(p) ==
    pc[p] \in {"create", "write", "sync", "rename"} /\ branch[p] \in {"found", "rebuild"}

\* C21: when the target cannot be read, insert_into_inbox returns the I/O
\* error and writes nothing: the directory is unchanged and holds no temp file
\* of the caller. The new content is complete before the first write step, and
\* the target keeps the content read until the rename.
C21_ReadFailureWritesNothing ==
    /\ [](\A p \in Procs :
            WritingInsert(p)
            => /\ buf[p] = NewContent(content[p], FinalText(cmd[p]))
               /\ fs[Target(p)] = content[p])
    /\ [][\A p \in Procs :
            ReadFailed(p)
            => /\ pc'[p] = "unlock" /\ res'[p] = "io_error"
               /\ fs' = fs
               /\ TmpPath(Target(p), p) \notin DOMAIN fs'
               /\ buf'[p] = buf[p]]_vars

\* an insert has ended with the error of its read: the target is as it was at
\* the start and there is no temp file
C21_Witness ==
    \E p \in Procs :
        /\ Inserter(p) /\ pc[p] = "done" /\ res[p] = "io_error"
        /\ branch[p] = "none" /\ content[p] = <<>>
        /\ grants[Today] = <<p>>
        /\ TodayPlan \in DOMAIN fs0 /\ fs[TodayPlan] = fs0[TodayPlan]
        /\ TmpPath(Target(p), p) \notin DOMAIN fs

(* ------------------------------------------------------------------ *)
(* Properties of shared and per-file locks                             *)
(* ------------------------------------------------------------------ *)

HoldsShared(p) == [proc |-> p, path |-> LockPath(Target(p)), mode |-> "shared"] \in locks

\* p is a show about to read, or reading, its file
ShowReading(p) == cmd[p].op = "show" /\ pc[p] = "sh_read"

\* C22: a show reads under the shared lock of its file, and while it does no
\* mutation of that file is anywhere between its existence check, its read of
\* the content and the completion of its rename.
C22_ShowExcludesMutation ==
    \A p \in Procs :
        ShowReading(p)
        => /\ HoldsShared(p)
           /\ \A q \in Procs :
                (Mutating(cmd[q].op) /\ Target(q) = Target(p))
                => pc[q] \notin MutationSteps \cup {"cleanup", "unlock"}

\* two shows hold the shared lock of the same file at the same time
C22_Witness ==
    \E p, q \in Procs :
        /\ p # q
        /\ ShowReading(p) /\ ShowReading(q)
        /\ Target(p) = Target(q)
        /\ HoldsShared(p) /\ HoldsShared(q)

\* no other process holds a lock on the lock file of p's target
FreeForMe(p) == \A l \in locks : l.path = LockPath(Target(p)) => l.proc = p

\* C23: locks are per plan file: a process waiting for the lock of its file is
\* granted it as soon as no other process holds a lock on that file's lock
\* sibling, whatever locks are held on the files of other dates.
C23_LocksArePerFile ==
    \A p \in Procs :
        (pc[p] = "lock_wait" /\ FreeForMe(p)) => ENABLED (LockExclusive(p) \/ LockShared(p))

\* two inserts on the files of two dates are inside their atomic writes at the
\* same time, each under its own exclusive lock
C23_Witness ==
    \E p, q \in Procs :
        /\ Target(p) # Target(q)
        /\ HoldsExcl(p) /\ HoldsExcl(q)
        /\ WritingInsert(p) /\ WritingInsert(q)

(* ------------------------------------------------------------------ *)
(* Properties of the lock and temp siblings                            *)
(* ------------------------------------------------------------------ *)

LockFiles(dir) == {x \in DOMAIN dir : x.kind = "lock"}

\* C24: a lock file, once created, is there in every later state: no step of
\* any command, succeeding or failing, deletes or renames it.
C24_LockFileStays ==
    [][\A x \in LockFiles(fs) : x \in DOMAIN fs' /\ fs'[x] = fs[x]]_vars

\* one command has failed and another has succeeded on today's plan file, and
\* its lock file is still there
C24_Witness ==
    \E p, q \in Procs :
        /\ pc[p] = "done" /\ res[p] = "io_error"
        /\ pc[q] = "done" /\ res[q] = "ok"
        /\ \E i \in 1..Len(grants[Today]) : grants[Today][i] = p
        /\ \E i \in 1..Len(grants[Today]) : grants[Today][i] = q
        /\ LockPath(TodayPlan) \in DOMAIN fs
        /\ locks = {}

\* the target of p's command and its temp and lock siblings
Siblings(p) ==
    {[stem |-> get_date(cmd[p].days), kind |-> "plan", pid |-> 0],
     [stem |-> get_date(cmd[p].days), kind |-> "tmp", pid |-> Pid(p)],
     [stem |-> get_date(cmd[p].days), kind |-> "lock", pid |-> 0]}

\* the entry x is created, removed or rewritten by the step
Changed(x) == x \notin DOMAIN fs \/ x \notin DOMAIN fs' \/ fs'[x] # fs[x]

\* C25: every directory entry a step creates, modifies or removes is the
\* target of the command taking the step, that target's temp sibling or its
\* lock sibling; every other entry is unchanged.
C25_OnlyTargetAndSiblings ==
    [][\A x \in DOMAIN fs \cup DOMAIN fs' :
         Changed(x) => \E p \in Procs : pc'[p] # pc[p] /\ x \in Siblings(p)]_vars

\* a line has been inserted into today's file while yesterday's file is as it
\* was and has no siblings
C25_Witness ==
    \E p \in Procs :
        /\ InsertedOk(p)
        /\ get_plan_path(get_date(1)) \in DOMAIN fs
        /\ fs[get_plan_path(get_date(1))] = fs0[get_plan_path(get_date(1))]
        /\ \A x \in DOMAIN fs : x.stem = get_date(1) => x.kind = "plan"

\* the temp files of process p, whatever their target
TmpFilesOf(p) == {x \in DOMAIN fs : x.kind = "tmp" /\ x.pid = Pid(p)}

\* C26: a temp file exists only inside one mutation call: whenever a temp file
\* of a process exists, that process is between the create and the rename (or
\* the guard's clean-up) of an atomic write to that file's target; after a
\* successful insert the target holds the new content and the temp path is
\* empty, and after any return the temp path is empty.
C26_TempOnlyInsideCall ==
    \A p \in Procs :
        /\ \A x \in TmpFilesOf(p) :
              /\ pc[p] \in {"write", "sync", "rename", "cleanup"}
              /\ x = TmpPath(Target(p), p)
        /\ (Inserter(p) /\ res[p] = "ok" /\ pc[p] = "unlock")
           => /\ Target(p) \in DOMAIN fs
              /\ fs[Target(p)] = buf[p]
        /\ (Mutating(cmd[p].op) /\ res[p] = "ok") => Target(p) \in DOMAIN fs

\* one insert failed inside its atomic write and another then succeeded: the
\* new content is at the target and no temp file is left
C26_Witness ==
    \E p, q \in Procs :
        /\ Inserter(p) /\ res[p] = "ok" /\ pc[p] = "unlock"
        /\ fs[Target(p)] = buf[p]
        /\ pc[q] = "done" /\ res[q] = "io_error" /\ branch[q] \in {"found", "rebuild"}
        /\ \A x \in DOMAIN fs : x.kind # "tmp"

\* p runs a mutating command
Writer(p) == Mutating(cmd[p].op) /\ Running(p)

\* C27: the temp path comes from the target path and the writer's process id:
\* two writers never have the same temp path, also for the same target, and a
\* temp file is only ever created, rewritten, renamed or removed by a step of
\* the process whose id it carries.
C27_TempPathPerWriter ==
    /\ [](\A p, q \in Procs :
            (p # q /\ Writer(p) /\ Writer(q))
            => TmpPath(Target(p), p) # TmpPath(Target(q), q))
    /\ [][\A x \in DOMAIN fs \cup DOMAIN fs' :
            (x.kind = "tmp" /\ Changed(x))
            => \E p \in Procs :
                  pc'[p] # pc[p] /\ x.pid = Pid(p) /\ x.stem = Target(p).stem]_vars

\* the temp file a killed writer left behind and the temp file of a writer now
\* at its rename, for the same target, are both there
C27_Witness ==
    \E p, q \in Procs :
        /\ p # q /\ Target(p) = Target(q)
        /\ pc[p] = "crashed" /\ TmpPath(Target(p), p) \in DOMAIN fs
        /\ pc[q] = "rename" /\ TmpPath(Target(q), q) \in DOMAIN fs
        /\ fs[TmpPath(Target(q), q)] = buf[q]
        /\ fs[TmpPath(Target(p), p)] # buf[q]

\* p's step takes it to the position pos
Enters(p, pos) == pc'[p] = pos /\ pc[p] # pos

\* C28: the steps of an atomic write come in this order: the temp file is
\* created, the full content is written to it, it is synced, and only then is
\* it renamed onto the target; the target changes in no other step, and what
\* the rename puts in place is the full content.
C28_WriteSyncRename ==
    [][\A p \in Procs :
         /\ Enters(p, "write")
            => pc[p] = "create" /\ TmpPath(Target(p), p) \in DOMAIN fs'
         /\ Enters(p, "sync")
            => pc[p] = "write" /\ fs'[TmpPath(Target(p), p)] = buf[p]
         /\ Enters(p, "rename")
            => pc[p] = "sync" /\ fs[TmpPath(Target(p), p)] = buf[p]
         /\ (pc'[p] # pc[p] /\ Target(p) \in DOMAIN fs \cup DOMAIN fs' /\ Changed(Target(p)))
            => /\ pc[p] = "rename"
               /\ fs[TmpPath(Target(p), p)] = buf[p]
               /\ fs'[Target(p)] = buf[p]]_vars

\* the full new content has been written and synced, the rename is still to
\* come and the target holds the content read
C28_Witness ==
    \E p \in Procs :
        /\ pc[p] = "rename" /\ branch[p] = "found"
        /\ fs[TmpPath(Target(p), p)] = buf[p]
        /\ fs[Target(p)] = content[p]
        /\ buf[p] # content[p]

(* ------------------------------------------------------------------ *)
(* Properties of the directory scan                                    *)
(* ------------------------------------------------------------------ *)

TmpFiles(dir) == {x \in DOMAIN dir : x.kind = "tmp"}

\* C29: a directory scan, whenever it runs, lists no writer's temp file as a
\* plan file, so no listing holds one and none is read by it.
C29_ScanSkipsTempFiles ==
    /\ scan_plan_dir(fs) \cap TmpFiles(fs) = {}
    /\ scan_plan_dir(fs) = PlanFiles(fs)
    /\ \A p \in Procs : \A e \in entries[p] : e.kind = "plan"

\* a listing is under way while a writer's temp file, created but not yet
\* written, is in the directory
C29_Witness ==
    \E p, q \in Procs :
        /\ cmd[p].op = "ls" /\ pc[p] = "ls_read" /\ entries[p] # {}
        /\ pc[q] = "write"
        /\ TmpPath(Target(q), q) \in DOMAIN fs
        /\ fs[TmpPath(Target(q), q)] # buf[q]
        /\ TmpPath(Target(q), q) \notin scan_plan_dir(fs)
        /\ Target(q) \in scan_plan_dir(fs)

(* ------------------------------------------------------------------ *)
(* Determinism of the insertion                                        *)
(* ------------------------------------------------------------------ *)

\* process p has read its target and computed the content it writes
Computed(p) == Mutating(cmd[p].op) /\ branch[p] \in {"found", "rebuild"}

SameInput(p, q) == content[p] = content[q] /\ FinalText(cmd[p]) = FinalText(cmd[q])

FoundTwice ==
    \E p, q \in Procs :
        /\ p # q /\ Computed(p) /\ Computed(q) /\ SameInput(p, q)
        /\ res[p] = "io_error" /\ branch[q] = "found" /\ pc[q] = "rename"
        /\ fs[TmpPath(Target(q), q)] = buf[p]

(* ------------------------------------------------------------------ *)
(* show on a date without a plan file                                  *)
(* ------------------------------------------------------------------ *)

\* process p, running show, takes a step while its plan file does not exist
ShowStepOnMissing(p) ==
    /\ cmd'[p].op = "show"
    /\ pc'[p] # pc[p]
    /\ Target(p) \notin DOMAIN fs

\* C31: show on a date whose plan file does not exist ends with exit code 2
\* in its first step and changes nothing: no plan file and no lock file is
\* created and no lock is taken.
C31_ShowMissingExits2 ==
    /\ [](\A p \in Procs :
            res[p] = "exit2" => cmd[p].op = "show" /\ pc[p] = "done" /\ HoldsNoLock(p))
    /\ [][\A p \in Procs :
            ShowStepOnMissing(p)
                => /\ fs' = fs
                   /\ locks' = locks
                   /\ pc[p] # "idle" => pc'[p] = "done" /\ res'[p] = "exit2"]_vars

\* a show has ended with exit code 2, and neither the plan file nor its lock
\* file is in the directory
C31_Witness ==
    \E p \in Procs :
        /\ cmd[p].op = "show" /\ pc[p] = "done" /\ res[p] = "exit2"
        /\ Target(p) \notin DOMAIN fs
        /\ LockPath(Target(p)) \notin DOMAIN fs
        /\ fs = fs0

(* ------------------------------------------------------------------ *)
(* date.rs: parse_date_opt                                             *)
(* ------------------------------------------------------------------ *)

\* an unsigned 32-bit value as two 16-bit limbs
Limb == 256 * 256

U32(hi, lo) == [hi |-> hi, lo |-> lo]

Small(n) == U32(n \div Limb, n % Limb)

U32Max == U32(Limb - 1, Limb - 1)

IsDigit(c) == \E n \in 0..9 : Digit(n) = c

DigitValue(c) == CHOOSE n \in 0..9 : Digit(n) = c

\* u32::to_string, as format!("{}", days) renders it
RECURSIVE to_string(_)
to_string(v) ==
    IF v.hi = 0 /\ v.lo < 10 THEN <<Digit(v.lo)>>
    ELSE LET t == (v.hi % 10) * Limb + v.lo
         IN  to_string(U32(v.hi \div 10, t \div 10)) \o <<Digit(t % 10)>>

ParseError == [ok |-> FALSE, val |-> Small(0)]

Parsed(v) == [ok |-> TRUE, val |-> v]

\* the digits of str::parse::<u32> taken from the left: an invalid digit or a
\* value past u32::MAX is an error
RECURSIVE Accumulate(_, _, _)
Accumulate(ds, i, v) ==
    IF i > Len(ds) THEN Parsed(v)
    ELSE IF ~IsDigit(ds[i]) THEN ParseError
    ELSE LET lo == v.lo * 10 + DigitValue(ds[i])
             hi == v.hi * 10 + lo \div Limb
         IN  IF hi >= Limb THEN ParseError
             ELSE Accumulate(ds, i + 1, U32(hi, lo % Limb))

\* a parse whose value wraps around at 2^32 instead of failing
RECURSIVE AccumulateWrapping(_, _, _)
AccumulateWrapping(ds, i, v) ==
    IF i > Len(ds) THEN Parsed(v)
    ELSE IF ~IsDigit(ds[i]) THEN ParseError
    ELSE LET lo == v.lo * 10 + DigitValue(ds[i])
             hi == v.hi * 10 + lo \div Limb
         IN  AccumulateWrapping(ds, i + 1, U32(hi % Limb, lo % Limb))

parse_u32_wrapping(s) ==
    LET ds == IF s # <<>> /\ s[1] = "+" THEN Tail(s) ELSE s
    IN  IF ds = <<>> THEN ParseError ELSE AccumulateWrapping(ds, 1, Small(0))

\* str::parse::<u32>: an optional plus sign, then one or more decimal digits
parse_u32(s) ==
    LET ds == IF s # <<>> /\ s[1] = "+" THEN Tail(s) ELSE s
    IN  IF ds = <<>> THEN ParseError ELSE Accumulate(ds, 1, Small(0))

Uppers == <<"A", "B", "C", "D", "E", "F", "G", "H", "I", "J", "K", "L", "M", "N", "O", "P", "Q", "R", "S", "T", "U", "V", "W", "X", "Y", "Z">>

Lowers == <<"a", "b", "c", "d", "e", "f", "g", "h", "i", "j", "k", "l", "m", "n", "o", "p", "q", "r", "s", "t", "u", "v", "w", "x", "y", "z">>

\* char::to_lowercase on the ASCII letters
LowerChar(c) ==
    IF \E i \in 1..Len(Uppers) : Uppers[i] = c
    THEN Lowers[CHOOSE i \in 1..Len(Uppers) : Uppers[i] = c]
    ELSE c

to_lowercase(s) == [i \in 1..Len(s) |-> LowerChar(s[i])]

AtTilde == <<"@", "~">>

DaysAgo == <<" ", "d", "a", "y", "s", " ", "a", "g", "o">>

DayAgo == <<" ", "d", "a", "y", " ", "a", "g", "o">>

\* parse_date_opt(arg): arg is Some(d) or None
parse_date_opt(some, d) ==
    IF ~some THEN Parsed(Small(0))
    ELSE LET d_lower == to_lowercase(Trim(d))
         IN  IF StartsWith(d_lower, AtTilde)
             THEN parse_u32(SubSeq(d_lower, 3, Len(d_lower)))
             ELSE IF d_lower = <<"@">> \/ d_lower = <<"t", "o", "d", "a", "y">>
             THEN Parsed(Small(0))
             ELSE IF d_lower = <<"y", "e", "s", "t", "e", "r", "d", "a", "y">>
             THEN Parsed(Small(1))
             ELSE IF EndsWith(d_lower, DaysAgo)
             THEN parse_u32(Trim(SubSeq(d_lower, 1, Len(d_lower) - Len(DaysAgo))))
             ELSE IF EndsWith(d_lower, DayAgo)
             THEN parse_u32(Trim(SubSeq(d_lower, 1, Len(d_lower) - Len(DayAgo))))
             ELSE ParseError

\* the numbers rendered into arguments: the small ones and those around the
\* limb and sign boundaries of 32 bits
Values ==
    {Small(n) : n \in 0..MaxSmall}
        \cup {Small(21), Small(100), Small(9999), Small(Limb - 1), Small(Limb),
              U32(Limb \div 2 - 1, Limb - 1), U32(Limb \div 2, 0), U32Max}

\* numerals that are no rendering of a u32: signed, zero-padded, too large,
\* empty, or holding other characters
OtherNumerals ==
    {
      <<"+", "5">>, <<"0", "0", "7">>, <<"+", "0">>, <<"0", "0">>, <<"+">>, <<"-", "1">>, <<>>,
      <<"x">>, <<"5", "x">>, <<"1", " ", "0">>, <<"5", " ">>, <<" ", "5">>, <<"+", "-", "5">>,
      <<"5", "+">>, <<"0", "x", "1", "0">>,
      <<"4", "2", "9", "4", "9", "6", "7", "2", "9", "6">>,
      <<"4", "2", "9", "4", "9", "6", "7", "3", "0", "0">>,
      <<"0", "4", "2", "9", "4", "9", "6", "7", "2", "9", "5">>,
      <<"+", "4", "2", "9", "4", "9", "6", "7", "2", "9", "5">>,
      <<"4", "2", "9", "4", "9", "6", "7", "2", "9", "5", "0">>,
      <<"9", "9", "9", "9", "9", "9", "9", "9", "9", "9", "9">>,
      <<"5", "0", "0", "0", "0", "0", "0", "0", "0", "0">>
    }

Numerals == {to_string(v) : v \in Values} \cup OtherNumerals

\* the arguments built around a numeral
Forms(n) ==
    { n \o DaysAgo, n \o DayAgo, AtTilde \o n, n,
      n \o <<" ">> \o DaysAgo, <<" ">> \o n \o DayAgo \o <<" ">>,
      n \o <<" ", "D", "A", "Y", "S", " ", "A", "G", "O">>, n \o <<" ", "d", "a", "y", "s">>,
      AtTilde \o n \o DaysAgo, <<"@">> \o n, n \o <<" ", "d", "a", "y", "s", " ", "a", "g", "o", ".">> }

Keywords ==
    {
      <<"t", "o", "d", "a", "y">>, <<"T", "o", "d", "a", "y">>, <<"T", "O", "D", "A", "Y">>,
      <<" ", "t", "o", "d", "a", "y", " ">>, <<"@">>, <<" ", "@", " ">>,
      <<"y", "e", "s", "t", "e", "r", "d", "a", "y">>,
      <<"Y", "E", "S", "T", "E", "R", "D", "A", "Y">>,
      <<"Y", "e", "s", "t", "e", "r", "d", "a", "y", " ">>,
      <<"t", "o", "m", "o", "r", "r", "o", "w">>, <<>>, <<" ">>, <<"@", "@">>,
      <<"t", "o", "d", "a", "y", "y">>, <<"y", "e", "s", "t", "e", "r", " ", "d", "a", "y">>,
      <<"@", "~">>, <<" ", "d", "a", "y", "s", " ", "a", "g", "o">>,
      <<"d", "a", "y", "s", " ", "a", "g", "o">>, <<"d", "a", "y", " ", "a", "g", "o">>,
      <<"n", "o", "w">>, <<"@", " ", "~", "1">>, <<"~", "1">>, <<"t", "o", " ", "d", "a", "y">>
    }

Args == Keywords \cup UNION {Forms(n) : n \in Numerals}

\* process 1 is about to call parse_date_opt on Some(d) or on None
ParseInit ==
    /\ fs = <<>>
    /\ fs0 = fs
    /\ locks = {}
    /\ pc = [p \in Procs |-> IF p = 1 THEN "parse" ELSE "idle"]
    /\ cmd \in {[p \in Procs |-> IF p = 1 THEN c ELSE NoCmd] :
                  c \in {[op |-> "parse", text |-> d, days |-> 0] : d \in Args}
                          \cup {[op |-> "parse_none", text |-> <<>>, days |-> 0]}}
    /\ content = [p \in Procs |-> <<>>]
    /\ buf = [p \in Procs |-> <<>>]
    /\ branch = [p \in Procs |-> "none"]
    /\ res = [p \in Procs |-> "none"]
    /\ entries = [p \in Procs |-> {}]
    /\ seen = [p \in Procs |-> {}]
    /\ grants = [d \in Dates |-> <<>>]
    /\ versions = [d \in Dates |-> {}]
    /\ faults = 0
    /\ crashes = 0

\* parse_date_arg_or_error(actual_date): Ok(days), kept as its two limbs, or
\* the usage error
ParseDate(p) ==
    /\ pc[p] = "parse"
    /\ LET r == parse_date_opt(cmd[p].op = "parse", cmd[p].text)
       IN  /\ res' = [res EXCEPT ![p] = IF r.ok THEN "ok" ELSE "usage_error"]
           /\ buf' = [buf EXCEPT ![p] = IF r.ok THEN <<r.val.hi, r.val.lo>> ELSE <<>>]
    /\ pc' = [pc EXCEPT ![p] = "done"]
    /\ UNCHANGED <<fs, fs0, locks, cmd, content, branch, entries, seen, grants, versions,
                   faults, crashes>>

ParseNext == \E p \in Procs : ParseDate(p)

\* parse_date_opt on each argument
ParseSpec == ParseInit /\ [][ParseNext]_vars

(* ------------------------------------------------------------------ *)
(* Properties of parse_date_opt                                        *)
(* ------------------------------------------------------------------ *)

ParseDone == cmd[1].op \in {"parse", "parse_none"} /\ pc[1] = "done"

\* the argument as the function compares it: trimmed and lower-cased
Lowered == to_lowercase(Trim(cmd[1].text))

ParsedOk(n) == res[1] = "ok" /\ Len(buf[1]) = 2 /\ to_string(U32(buf[1][1], buf[1][2])) = n

ParsedErr == res[1] = "usage_error" /\ buf[1] = <<>>

AllDigits(s) == s # <<>> /\ \A i \in 1..Len(s) : IsDigit(s[i])

\* the decimal rendering of u32::MAX
MaxNumeral == <<"4", "2", "9", "4", "9", "6", "7", "2", "9", "5">>

\* a <= b for numerals of one length
LexLeq(a, b) ==
    \/ a = b
    \/ \E i \in 1..Len(a) :
         /\ SubSeq(a, 1, i - 1) = SubSeq(b, 1, i - 1)
         /\ DigitValue(a[i]) < DigitValue(b[i])

\* s is the decimal rendering of an unsigned 32-bit number
Canonical(s) ==
    /\ AllDigits(s)
    /\ Len(s) = 1 \/ s[1] # "0"
    /\ Len(s) < Len(MaxNumeral) \/ (Len(s) = Len(MaxNumeral) /\ LexLeq(s, MaxNumeral))

Unsigned(s) == IF s # <<>> /\ s[1] = "+" THEN Tail(s) ELSE s

\* s without its leading zeros, one digit at least
StripZeros(s) ==
    LET nz == {i \in 1..Len(s) : s[i] # "0"}
    IN  IF nz = {} THEN <<"0">>
        ELSE SubSeq(s, CHOOSE i \in nz : \A j \in nz : i <= j, Len(s))

\* s is what parse::<u32> takes: an optional plus sign and digits, zero-padded
\* or not, of a value up to u32::MAX
DenotesU32(s) == AllDigits(Unsigned(s)) /\ Canonical(StripZeros(Unsigned(s)))

WithoutSuffix(d, suffix) == SubSeq(d, 1, Len(d) - Len(suffix))

\* the N of `N days ago`, `N day ago` or `@~N`, N rendered in decimal
ListedNumerals(d) ==
    {n \in ({SubSeq(d, 3, Len(d)) : x \in {1}} \cup
            {WithoutSuffix(d, s) : s \in {s \in {DaysAgo, DayAgo} : EndsWith(d, s)}}) :
        /\ Canonical(n)
        /\ d \in {AtTilde \o n, n \o DaysAgo, n \o DayAgo}}

IsKeyword(d) == d \in {<<"@">>, <<"t", "o", "d", "a", "y">>, <<"y", "e", "s", "t", "e", "r", "d", "a", "y">>}

KeywordValue(d) == IF d = <<"y", "e", "s", "t", "e", "r", "d", "a", "y">> THEN <<"1">> ELSE <<"0">>

\* C32 as stated: the listed forms give N, every other string is an error
C32_ErrorForEveryOtherString ==
    ParseDone
    => IF cmd[1].op = "parse_none" THEN ParsedOk(<<"0">>)
       ELSE IF IsKeyword(Lowered) THEN ParsedOk(KeywordValue(Lowered))
       ELSE IF ListedNumerals(Lowered) # {}
       THEN \A n \in ListedNumerals(Lowered) : ParsedOk(n)
       ELSE ParsedErr

\* the numeral the function parses: after `@~` as it stands, before
\* ` days ago` or ` day ago` with the blanks around it trimmed
AcceptedNumerals(d) ==
    IF StartsWith(d, AtTilde) THEN {n \in {SubSeq(d, 3, Len(d))} : DenotesU32(n)}
    ELSE IF IsKeyword(d) THEN {}
    ELSE {n \in {Trim(WithoutSuffix(d, s)) : s \in {s \in {DaysAgo, DayAgo} : EndsWith(d, s)}} :
            DenotesU32(n)}

\* C32: parse_date_opt maps a missing argument, `today` and `@` to 0,
\* `yesterday` to 1, and `N days ago`, `N day ago` and `@~N` to N for every
\* unsigned 32-bit N, after trimming and lower-casing; N may be written with a
\* plus sign and leading zeros, and with further blanks before ` days ago`;
\* every other string, a number past u32::MAX included, is an error, and the
\* call always returns.
C32_ParseDateOpt ==
    ParseDone
    => /\ IF cmd[1].op = "parse_none" THEN ParsedOk(<<"0">>)
          ELSE IF ~StartsWith(Lowered, AtTilde) /\ IsKeyword(Lowered)
          THEN ParsedOk(KeywordValue(Lowered))
          ELSE IF AcceptedNumerals(Lowered) # {}
          THEN \A n \in AcceptedNumerals(Lowered) : ParsedOk(StripZeros(Unsigned(n)))
          ELSE ParsedErr
       /\ \A n \in ListedNumerals(Lowered) : cmd[1].op = "parse" => ParsedOk(n)
       /\ fs = fs0 /\ locks = {}

\* u32::MAX days ago, in capitals, parsed to both limbs full
C32_Witness ==
    /\ ParseDone
    /\ cmd[1].text = MaxNumeral \o <<" ", "D", "A", "Y", "S", " ", "A", "G", "O">>
    /\ res[1] = "ok"
    /\ buf[1] = <<Limb - 1, Limb - 1>>

\* a signed, zero-padded or widely spaced number is taken as well
SignedTaken ==
    /\ ParseDone
    /\ cmd[1].text = <<"+", "5">> \o <<" ">> \o DaysAgo
    /\ res[1] = "ok"
    /\ buf[1] = <<0, 5>>

(* ------------------------------------------------------------------ *)
(* Properties of the marker scan                                       *)
(* ------------------------------------------------------------------ *)

\* the call of process 1 has read the file and scanned it for the markers
Scanned == cmd[1].op = "insert" /\ (branch[1] \in {"found", "rebuild"} \/ pc[1] = "done")

\* C33: the open marker selected is the first line that is an open marker, the
\* close marker the first tilde-only line strictly after it; tilde-only lines
\* before the open marker and later open markers do not count, and a close
\* index, when there is one, is greater than the open index.
C33_MarkerSelection ==
    Scanned
    => LET m == FindMarkers(OldLines)
       IN  /\ m.start = IF HasOpen(OldLines) THEN FirstOpen(OldLines) ELSE 0
           /\ m.end = IF HasRegion(OldLines) THEN CloseIndex(OldLines) ELSE 0
           /\ m.end # 0 => m.start # 0 /\ m.end > m.start
           /\ branch[1] \in {"none", IF HasRegion(OldLines) THEN "found" ELSE "rebuild"}

\* a tilde line, then the open marker, then a tilde line: the third line is
\* the close marker, and the text went in directly before it
C33_Witness ==
    /\ Inserted
    /\ OldLines = <<<<"~", "~">>, <<"~", "i", "n", "b", "o", "x", "~">>, <<"~", "~">>>>
    /\ FindMarkers(OldLines) = [start |-> 2, end |-> 3]
    /\ NewLine = <<"n">>
    /\ ContentLines(Written) = InsertAt(OldLines, 3, NewLine)

\* two open markers and a tilde line: the first open marker is the one taken
LaterOpenIgnored ==
    /\ Inserted
    /\ OldLines = <<<<"~", "i", "n", "b", "o", "x", "~">>, <<"~", "i", "n", "b", "o", "x", "~">>,
                    <<"~", "~">>>>
    /\ FindMarkers(OldLines) = [start |-> 1, end |-> 3]

(* ------------------------------------------------------------------ *)
(* The width of a synthesized inbox block                              *)
(* ------------------------------------------------------------------ *)

\* files without an inbox block: a first line of up to MaxWidth characters,
\* alone, newline-terminated, or followed by a second line
HeaderBodies ==
    {Repeat("H", n) \o tail : n \in 0..MaxWidth, tail \in {<<>>, <<NL>>, <<NL, "x", NL>>}}

\* process 1 is about to run acquire_lock and insert_into_inbox on such a file
WidthInit ==
    /\ fs \in {[x \in {get_plan_path(get_date(0))} |-> b] : b \in HeaderBodies}
    /\ fs0 = fs
    /\ locks = {}
    /\ pc = [p \in Procs |-> IF p = 1 THEN "lock_open" ELSE "idle"]
    /\ cmd \in {[p \in Procs |-> IF p = 1 THEN [op |-> "insert", text |-> t, days |-> 0]
                                   ELSE NoCmd] : t \in InsertTexts}
    /\ content = [p \in Procs |-> <<>>]
    /\ buf = [p \in Procs |-> <<>>]
    /\ branch = [p \in Procs |-> "none"]
    /\ res = [p \in Procs |-> "none"]
    /\ entries = [p \in Procs |-> {}]
    /\ seen = [p \in Procs |-> {}]
    /\ grants = [d \in Dates |-> <<>>]
    /\ versions = [d \in Dates |->
                     IF get_plan_path(d) \in DOMAIN fs THEN {fs[get_plan_path(d)]} ELSE {}]
    /\ faults = 0
    /\ crashes = 0

\* one call of insert_into_inbox on each such file and text
WidthSpec == WidthInit /\ [][InsertNext]_vars

\* the width the block is to have: the first line's length, 21 at least
TargetWidth ==
    IF OldLines = <<>> \/ Len(OldLines[1]) < DefaultWidth THEN DefaultWidth
    ELSE Len(OldLines[1])

\* where the synthesized open marker goes: after the old lines and the blank
\* line added when the last old line is not empty
OpenIndex ==
    Len(OldLines) + 1 + (IF OldLines # <<>> /\ OldLines[Len(OldLines)] # <<>> THEN 1 ELSE 0)

WrittenLines == ContentLines(Written)

\* C34: in a synthesized inbox block the width is the length of the file's
\* first line, or 21 when the file is empty or the first line is shorter; the
\* open marker and the close marker are both of exactly that width, 21 at
\* least.
C34_SynthesizedWidth ==
    (Inserted /\ ~HasRegion(OldLines))
    => /\ TargetWidth >= DefaultWidth
       /\ IsOpenMarker(WrittenLines[OpenIndex])
       /\ Len(WrittenLines[OpenIndex]) = TargetWidth
       /\ WrittenLines[Len(WrittenLines)] = Repeat("~", TargetWidth)
       /\ SubSeq(WrittenLines, 1, Len(OldLines)) = OldLines

\* a first line of 24 characters: both markers are 24 wide
C34_Witness ==
    /\ Inserted
    /\ OldLines = <<Repeat("H", 24)>>
    /\ NewLine = <<"n">>
    /\ WrittenLines = <<Repeat("H", 24), <<>>, Repeat("~", 9) \o InboxLabel \o Repeat("~", 10),
                        <<"n">>, Repeat("~", 24)>>

(* ------------------------------------------------------------------ *)
(* A corrupted region                                                  *)
(* ------------------------------------------------------------------ *)

\* the file has an open marker and no tilde-only line after the first one
Corrupted == HasOpen(OldLines) /\ ~HasRegion(OldLines)

\* the block appended: a blank line if the last old line is not empty, then
\* the open marker, new_line and the close marker
FreshBlock ==
    LET left == (TargetWidth - Len(InboxLabel)) \div 2
        right == TargetWidth - Len(InboxLabel) - left
    IN  (IF OldLines[Len(OldLines)] # <<>> THEN <<<<>>>> ELSE <<>>)
            \o <<Repeat("~", left) \o InboxLabel \o Repeat("~", right), NewLine,
                 Repeat("~", TargetWidth)>>

\* C35: on a file with an open marker but no tilde-only line after it the
\* call still returns Ok: a fresh open marker, new_line and a close marker are
\* appended at the end, and every old line, the orphan open marker included,
\* stays as it was.
C35_CorruptedRegionRebuilt ==
    (cmd[1].op = "insert" /\ pc[1] = "done" /\ Corrupted)
    => /\ res[1] = "ok"
       /\ Written = Join(OldLines \o FreshBlock) \o <<NL>>
       /\ Split(Written)[FirstOpen(OldLines)] = OldLines[FirstOpen(OldLines)]
       /\ IsOpenMarker(Split(Written)[FirstOpen(OldLines)])

\* the open marker is the last line of the file: a blank line and a whole new
\* block follow it
C35_Witness ==
    /\ Inserted
    /\ OldLines = <<<<"H">>, <<"~", "i", "n", "b", "o", "x", "~">>>>
    /\ NewLine = <<"n">>
    /\ WrittenLines = <<<<"H">>, <<"~", "i", "n", "b", "o", "x", "~">>, <<>>,
                        Repeat("~", 8) \o InboxLabel \o Repeat("~", 8), <<"n">>,
                        Repeat("~", 21)>>

(* ------------------------------------------------------------------ *)
(* One atomic write for the three mutation paths                       *)
(* ------------------------------------------------------------------ *)

\* the temp sibling of p's target, from the target's date and the pid
TempOf(p) == [stem |-> get_date(cmd[p].days), kind |-> "tmp", pid |-> Pid(p)]

IsPrefix(a, b) == Len(a) <= Len(b) /\ a = SubSeq(b, 1, Len(a))

\* p leaves the position pos of its atomic write
Leaves(p, pos) == pc[p] = pos /\ pc'[p] # pos

\* the step ends in the error path: reported, and the guard still to be dropped
StepFails(p) == pc'[p] = "cleanup" /\ res'[p] = "io_error"

\* the steps of the atomic write of content c to p's target, whatever path of
\* the program runs it
AtomicWriteStep(p, c) ==
    /\ Leaves(p, "create")
         => \/ pc'[p] = "write" /\ fs' = WriteFile(fs, TempOf(p), <<>>) /\ res'[p] = res[p]
            \/ StepFails(p) /\ fs' = fs
    /\ Leaves(p, "write")
         => \/ pc'[p] = "sync" /\ fs' = WriteFile(fs, TempOf(p), c) /\ res'[p] = res[p]
            \/ /\ StepFails(p)
               /\ \E part \in {fs'[TempOf(p)]} :
                    IsPrefix(part, c) /\ fs' = WriteFile(fs, TempOf(p), part)
    /\ Leaves(p, "sync")
         => \/ pc'[p] = "rename" /\ fs' = fs /\ res'[p] = res[p]
            \/ StepFails(p) /\ fs' = fs
    /\ Leaves(p, "rename")
         => \/ /\ pc'[p] \in {"read", "unlock"}
               /\ fs' = RemoveFile(WriteFile(fs, Target(p), c), TempOf(p))
               /\ res'[p] # "io_error"
            \/ StepFails(p) /\ fs' = fs
    /\ Leaves(p, "cleanup")
         => pc'[p] = "unlock" /\ fs' = RemoveFile(fs, TempOf(p)) /\ res'[p] = "io_error"
    /\ (\E pos \in {"create", "write", "sync", "rename", "cleanup"} : Leaves(p, pos))
         => locks' = locks /\ buf'[p] = buf[p] /\ cmd'[p] = cmd[p]

RebuildRenames ==
    \E q \in Procs : pc[q] = "rename" /\ branch[q] = "rebuild" /\ fs[TempOf(q)] = buf[q]

\* the write of a template has failed and its temp file is about to be removed
TemplateFails ==
    \E q \in Procs : pc[q] = "cleanup" /\ branch[q] = "template" /\ TempOf(q) \in DOMAIN fs

(* ------------------------------------------------------------------ *)
(* The region after an insert                                          *)
(* ------------------------------------------------------------------ *)

\* the content the plan file of date d had at the start, if it was there
InitialVersions(d) ==
    IF get_plan_path(d) \in DOMAIN fs0 THEN {fs0[get_plan_path(d)]} ELSE {}

\* p's read finds no region and sends it down the reconstruction path
TakesRebuild(p) == branch'[p] = "rebuild" /\ branch[p] # "rebuild"

\* p's rename of a reconstructed content succeeds
Synthesizes(p) ==
    pc[p] = "rename" /\ branch[p] = "rebuild" /\ pc'[p] \notin {"rename", "cleanup"}

\* C37: every content a successful insert (or the template creation) has
\* written holds an open marker and a tilde-only line after it; so a block is
\* synthesized only into the file as it was before any write, at most once, and
\* every insert that reads a written content takes the region-found path.
C37_RegionStaysOnceWritten ==
    /\ [](\A d \in Dates : \A c \in versions[d] \ InitialVersions(d) :
            HasRegion(ContentLines(c)))
    /\ [][\A p \in Procs :
            (TakesRebuild(p) \/ Synthesizes(p))
                => /\ versions[Target(p).stem] = InitialVersions(Target(p).stem)
                   /\ Target(p) \in DOMAIN fs0
                   /\ fs[Target(p)] = fs0[Target(p)]]_vars

\* the first insert synthesized the block, and a later insert has read what it
\* wrote and is on the region-found path
C37_Witness ==
    \E p, q \in Procs :
        /\ p # q
        /\ TodayPlan \in DOMAIN fs0 /\ ~HasRegion(ContentLines(fs0[TodayPlan]))
        /\ InsertedOk(p) /\ Target(p) = TodayPlan
        /\ Target(q) = TodayPlan /\ branch[q] = "found" /\ pc[q] = "create"
        /\ content[q] = fs[TodayPlan]
        /\ Cardinality(versions[Today]) = 2

(* ------------------------------------------------------------------ *)
(* Termination                                                         *)
(* ------------------------------------------------------------------ *)

\* the commands on today's plan file that take a lock; the text of log and
\* jot is read before the lock, the editor of the default command runs after
\* the lock is dropped
LiveCmds ==
    {c \in Cmds : c.days = 0 /\ (c.op \in {"log", "show", "default"}
                                  \/ (c.op = "jot" /\ c.text = <<"b">>))}

LiveInit == InitWith(FailDirs, 0, 0)

StartLive(p) == StartFrom(p, LiveCmds)

LiveNext == \E p \in Procs : StartLive(p) \/ Step(p)

Positions ==
    {"idle", "lock_open", "lock_wait", "exists", "read", "create", "write", "sync", "rename",
     "cleanup", "unlock", "sh_exists", "sh_read", "ls_read", "done"}

\* p is running and is not kept waiting: the only wait is the one for a lock
\* that another process holds
CanStep(p) ==
    /\ pc[p] \notin {"idle", "done"}
    /\ pc[p] = "lock_wait"
         => IF LockMode(cmd[p].op) = "excl" THEN lock_exclusive(p, LockPath(Target(p)))
            ELSE lock_shared(p, LockPath(Target(p)))

\* p, not kept waiting, moves on to its next position
Advance(p) ==
    /\ CanStep(p)
    /\ \E pos \in Positions \ {pc[p]} : pc' = [pc EXCEPT ![p] = pos]

\* every process that is not kept waiting gets to take its step, and a lock
\* that stays free is granted to a process waiting for it
LiveSpec == LiveInit /\ [][LiveNext]_vars /\ \A p \in Procs : WF_pc(Advance(p))

LocksOf(p) == {l \in locks : l.proc = p}

Started(p) == cmd[p].op \in {"log", "jot", "show"} /\ pc[p] \notin {"idle", "done"}

\* p waits for nothing but the lock it has asked for, and holds none while it
\* waits
NeverBlockedHoldingALock(p) ==
    /\ Cardinality(LocksOf(p)) <= 1
    /\ pc[p] \in {"lock_open", "lock_wait"} => LocksOf(p) = {}
    /\ (LocksOf(p) # {} \/ pc[p] \notin {"idle", "done", "lock_wait"})
         => CanStep(p) /\ (pc[p] = "read" \/ ENABLED Step(p))
    /\ (pc[p] \notin {"idle", "done", "read"}) => (CanStep(p) <=> ENABLED Step(p))
    /\ pc[p] = "done" => LocksOf(p) = {}

\* C38: a process holds one lock at most and asks for none while it holds
\* one; whenever it holds a lock it can take its next step without waiting for
\* anyone; the default command has dropped its lock when it ends and the editor
\* starts; so every started log, jot or show command eventually ends.
C38_EveryCommandEnds ==
    /\ [](\A p \in Procs : NeverBlockedHoldingALock(p))
    /\ \A p \in Procs : Started(p) ~> (pc[p] = "done")

\* a log or jot waits for the lock while a default command holds it
C38_Witness ==
    \E p, q \in Procs :
        /\ cmd[p].op \in {"log", "jot"} /\ pc[p] = "lock_wait"
        /\ cmd[q].op = "default" /\ LocksOf(q) # {}
        /\ ~ENABLED Step(p)

====
